---- MODULE Spec2Model ----
(***************************************************************************)
(* Border0 auto-provisioning glue: the reconciliation core.                *)
(*                                                                         *)
(* The remote access-control service is the only store: sockets            *)
(* (endpoints), policies and the attachments between them.  The handlers   *)
(* of src/src/index.ts (performProvision, performDeprovision,              *)
(* scheduleMaintenance) and the client of border0.ts (the first class of   *)
(* src/unnamed/part_003) are modelled one remote call per step: every      *)
(* await on the remote API is one action.  The callback that index.ts      *)
(* gives to discovery.startWatching (src/src/discovery.ts) starts the same *)
(* handlers from start and stop events.                                    *)
(***************************************************************************)
EXTENDS Naturals, Integers, Sequences, FiniteSets, TLC

VARIABLES
    sockets,        \* remote: the set of socket records; owner is history,
                    \* the workload whose handler created the socket
    policies,       \* remote: the set of policy records
    nextSocketId,   \* remote: next socket id to hand out
    nextPolicyId,   \* remote: next policy id to hand out
    globalPolicyId, \* process env BORDER0_GLOBAL_POLICY_ID (0 = unset)
    req,            \* per request slot: the handler in flight / last finished
    prev,           \* per request slot: the handler that finished before req
    sweep,          \* per sweep slot: performPolicyMaintenance in flight
    timers,         \* armed maintenance timers (sequence of delays, ms)
    faults          \* number of transport errors injected so far

vars == <<sockets, policies, nextSocketId, nextPolicyId, globalPolicyId,
          req, prev, sweep, timers, faults>>

-----------------------------------------------------------------------------
(* Bounds of the model                                                     *)

MaxSockets == 2
MaxPolicies == 2
MaxFaults == 1
NumSlots == 2
NumSweepSlots == 2
RandSteps == 2

Slots == 1..NumSlots
SweepSlots == 1..NumSweepSlots

-----------------------------------------------------------------------------
(* Strings are sequences of one-character strings.                         *)

Min(a, b) == IF a < b THEN a ELSE b

AlNum ==
    {"a","b","c","d","e","f","g","h","i","j","k","l","m",
     "n","o","p","q","r","s","t","u","v","w","x","y","z",
     "A","B","C","D","E","F","G","H","I","J","K","L","M",
     "N","O","P","Q","R","S","T","U","V","W","X","Y","Z",
     "0","1","2","3","4","5","6","7","8","9"}

StartsWith(s, p) == Len(s) >= Len(p) /\ SubSeq(s, 1, Len(p)) = p

Includes(s, p) ==
    \E i \in 0..Len(s) : i + Len(p) <= Len(s) /\ SubSeq(s, i + 1, i + Len(p)) = p

ShortLen == 8

\* container_id.substring(0, 8)
ShortId(cid) == SubSeq(cid, 1, Min(ShortLen, Len(cid)))

\* mutant: the configs are laid out with vnc before ssh
TypesVncFirst == <<"vnc", "ssh", "web", "tcp", "rdp">>

\* Object.entries(configs): the service types in their fixed order
Types == <<"ssh", "vnc", "web", "tcp", "rdp">>

TypeIdx == 1..Len(Types)

TypeChars(t) ==
    CASE t = "ssh" -> <<"s","s","h">>
      [] t = "vnc" -> <<"v","n","c">>
      [] t = "web" -> <<"w","e","b">>
      [] t = "tcp" -> <<"t","c","p">>
      [] t = "rdp" -> <<"r","d","p">>

\* mutant: the name leaves the service type out
SocketNameNoType(t, shortId) == <<"s","o","c","k","e","t","-">> \o shortId

\* `${type}-${shortId}`
SocketName(t, shortId) == TypeChars(t) \o <<"-">> \o shortId

\* type === 'web' ? 'http' : type
Border0Type(t) == IF t = "web" THEN "http" ELSE t

DefaultPort(t) ==
    CASE t = "ssh" -> 22
      [] t = "vnc" -> 5901
      [] t = "web" -> 80
      [] t = "tcp" -> 0
      [] t = "rdp" -> 3389

PersonalMarker == <<"u","s","e","r","-","p","o","l","i","c","y","-">>

\* user_email.replace(/[^a-zA-Z0-9]/g, '-')
Sanitize(e) == [i \in 1..Len(e) |-> IF e[i] \in AlNum THEN e[i] ELSE "-"]

\* `user-policy-${sanitizedEmail}`
PolicyName(e) == PersonalMarker \o Sanitize(e)

IsPersonal(name) == StartsWith(name, PersonalMarker)

Digit(c) ==
    CASE c = "0" -> 0 [] c = "1" -> 1 [] c = "2" -> 2 [] c = "3" -> 3
      [] c = "4" -> 4 [] c = "5" -> 5 [] c = "6" -> 6 [] c = "7" -> 7
      [] c = "8" -> 8 [] c = "9" -> 9 [] OTHER -> -1

RECURSIVE ParseDigits(_, _, _)
ParseDigits(s, i, acc) ==
    IF i > Len(s) \/ Digit(s[i]) < 0 THEN acc
    ELSE ParseDigits(s, i + 1, acc * 10 + Digit(s[i]))

NaN == -1

\* parseInt: the leading decimal digits, NaN when there is none
ParseInt(s) == IF Len(s) = 0 \/ Digit(s[1]) < 0 THEN NaN ELSE ParseDigits(s, 1, 0)

RECURSIVE ToDigits(_)
ToDigits(n) ==
    LET d == <<"0","1","2","3","4","5","6","7","8","9">>[(n % 10) + 1]
    IN  IF n < 10 THEN <<d>> ELSE ToDigits(n \div 10) \o <<d>>

-----------------------------------------------------------------------------
(* Inputs                                                                  *)

NoEmail == <<>>
Email1 == <<"d","@","e",".","c">>

\* another principal, and a third whose email differs from Email1 only in
\* characters outside [a-zA-Z0-9]
Email2 == <<"f","@","e",".","c">>
Email3 == <<"d",".","e","@","c">>

Cid1 == <<"c","1","2","3","4","5","6","7","8","9">>
Cid2 == <<"d","7","6","5","4","3","2","1">>
ContainerIds == {Cid1, Cid2}

\* ids shorter than 8 characters: a part of Cid1, and the empty id
CidPart == <<"1","2","3">>
NoCid == <<>>

\* a workload whose id has the first 8 characters of Cid1
Cid3 == <<"c","1","2","3","4","5","6","7","a","b">>

NoIp == <<>>
Ip1 == <<"1","0",".","0",".","0",".","5">>

Undef == "undef"

\* the request body fields <type> and <type>_port (0: absent or 0, both falsy)
NoOptions == [enable |-> [t \in {"ssh","vnc","web","tcp","rdp"} |-> Undef],
              port |-> [t \in {"ssh","vnc","web","tcp","rdp"} |-> 0]]

OptionSet ==
    { NoOptions,
      [NoOptions EXCEPT !.enable["vnc"] = "true"],
      [NoOptions EXCEPT !.enable["ssh"] = "false", !.enable["tcp"] = "true"] }

\* the labels border0.io/<type> and border0.io/<type>_port of the workload
NoLabels == [enable |-> [t \in {"ssh","vnc","web","tcp","rdp"} |-> Undef],
             port |-> [t \in {"ssh","vnc","web","tcp","rdp"} |-> <<>>],
             email |-> NoEmail,
             auto |-> Undef]

NullInfo == [ip |-> NoIp, email |-> NoEmail, labels |-> NoLabels]

InfoSet ==
    { NullInfo,
      [ip |-> Ip1, email |-> NoEmail, labels |-> NoLabels] }

\* what discovery returns for the workloads the watcher reports
Labelled(auto, email) ==
    [ip |-> Ip1, email |-> email, labels |-> [NoLabels EXCEPT !.auto = auto]]

WatchInfoSet ==
    { NullInfo,
      Labelled("true", Email1),
      Labelled("false", Email1),
      Labelled(Undef, NoEmail),
      [Labelled("true", NoEmail) EXCEPT !.ip = NoIp] }

\* a request body and a label set that speak of one service type
OptionsFor(t, enable, port) ==
    [NoOptions EXCEPT !.enable[t] = enable, !.port[t] = port]

LabelsFor(t, enable, port) ==
    [NoLabels EXCEPT !.enable[t] = enable, !.port[t] = port]

RequestPorts == {0, 8080}

LabelPorts == {<<>>, <<"2","2","2","2">>}

\* mutant: the label is read before the request field
GetSocketConfigLabelFirst(options, info, t) ==
    LET optionEnabled == options.enable[t]
        labelEnabled == info.labels.enable[t]
        enable == IF labelEnabled # Undef THEN labelEnabled = "true"
                  ELSE IF optionEnabled # Undef THEN optionEnabled = "true"
                  ELSE t = "ssh"
        optionPort == options.port[t]
        labelPort == info.labels.port[t]
        port == IF Len(labelPort) > 0 THEN ParseInt(labelPort)
                ELSE IF optionPort # 0 THEN optionPort
                ELSE DefaultPort(t)
    IN  [enable |-> enable, port |-> port]

\* getSocketConfig(type, defaultPort)
GetSocketConfig(options, info, t) ==
    LET optionEnabled == options.enable[t]
        labelEnabled == info.labels.enable[t]
        enable == IF optionEnabled # Undef THEN optionEnabled = "true"
                  ELSE IF labelEnabled # Undef THEN labelEnabled = "true"
                  ELSE t = "ssh"
        optionPort == options.port[t]
        labelPort == info.labels.port[t]
        port == IF optionPort # 0 THEN optionPort
                ELSE ParseInt(IF Len(labelPort) > 0 THEN labelPort
                              ELSE ToDigits(DefaultPort(t)))
    IN  [enable |-> enable, port |-> port]

\* mutant: an enabled type is reconciled whatever its port
RECURSIVE NextTypeAnyPort(_, _)
NextTypeAnyPort(configs, i) ==
    IF i > Len(Types) THEN i
    ELSE IF configs[Types[i]].enable THEN i
    ELSE NextTypeAnyPort(configs, i + 1)

\* the loop of performProvision: the next type at or after index i that is
\* enabled and not skipped for port 0; Len(Types) + 1 when there is none
RECURSIVE NextType(_, _)
NextType(configs, i) ==
    IF i > Len(Types) THEN i
    ELSE IF configs[Types[i]].enable
            /\ ~(configs[Types[i]].port = 0 /\ Types[i] # "ssh")
         THEN i
         ELSE NextType(configs, i + 1)

-----------------------------------------------------------------------------
(* The remote service, as the client sees it                               *)

GlobalPolicy == 100

\* BORDER0_CONNECTOR_ID
ConnectorId == "connector"
MgmtPolicyName == <<"m","g","m","t","-","p","o","l","i","c","y">>

RECURSIVE SortIds(_)
SortIds(S) ==
    IF S = {} THEN <<>>
    ELSE LET m == CHOOSE x \in S : \A y \in S : x <= y
         IN  <<m>> \o SortIds(S \ {m})

PolicyById(id) == CHOOSE p \in policies : p.id = id

SocketById(id) == CHOOSE s \in sockets : s.id = id

SocketExists(id) == \E s \in sockets : s.id = id

PolicyExists(id) == \E p \in policies : p.id = id

\* a socket of a listing: its id, its name and the policies attached to it
ListedSocket(s) ==
    [id |-> s.id, name |-> s.name,
     policies |-> [j \in 1..Cardinality(s.policies) |->
                     LET pid == SortIds(s.policies)[j]
                     IN  [id |-> pid, name |-> PolicyById(pid).name]]]

\* GET /sockets?name=<name>: the sockets whose name contains the pattern
RemoteListSockets(name) ==
    LET ids == SortIds({s.id : s \in {x \in sockets : Includes(x.name, name)}})
    IN  [j \in 1..Len(ids) |-> ListedSocket(SocketById(ids[j]))]

\* the shapes in which the service may deliver a listing, and the field that
\* carries the id of an item
Shapes == {"array", "list", "sockets"}

IdKeys == {"id", "socket_id"}

\* the second identifier of an object that is delivered with two of them
Alias(id) == id + 2 * GlobalPolicy

\* the body of a response that delivers items in a shape
Shaped(shape, items) ==
    [body |-> TRUE,
     isArray |-> shape = "array",
     items |-> IF shape = "array" THEN items ELSE <<>>,
     fields |-> [k \in {"list", "sockets", "policies"} |->
                   [present |-> k = shape,
                    value |-> IF k = shape THEN items ELSE <<>>]]]

\* an item as delivered: its id under the key the service uses (0: no such field)
RawItem(x, key) ==
    [id |-> IF key \in {"id", "both"} THEN x.id ELSE 0,
     socket_id |-> IF key = "socket_id" THEN x.id
                   ELSE IF key = "both" THEN Alias(x.id) ELSE 0,
     policy_id |-> 0,
     name |-> x.name, policies |-> x.policies]

PolicyIdKeys == {"id", "policy_id", "both"}

\* a policy as delivered: its id under id, under policy_id, or both
RawPolicy(x, key) ==
    [id |-> IF key \in {"id", "both"} THEN x.id ELSE 0,
     socket_id |-> 0,
     policy_id |-> IF key = "policy_id" THEN x.id
                   ELSE IF key = "both" THEN Alias(x.id) ELSE 0,
     name |-> x.name, has_socket_ids |-> x.has_socket_ids,
     socket_count |-> x.socket_count]

\* mutant: the id is taken from socket_id or policy_id whenever there is one
NormalizeIdOverwrites(item) ==
    IF item.socket_id # 0 THEN [item EXCEPT !.id = item.socket_id]
    ELSE IF item.policy_id # 0 THEN [item EXCEPT !.id = item.policy_id]
    ELSE item

\* createSocket, updateSocket: if (data && !data.id && data.socket_id)
\* data.id = data.socket_id
CanonicalId(data) ==
    IF data.id = 0 /\ data.socket_id # 0 THEN [data EXCEPT !.id = data.socket_id]
    ELSE data

\* item.id = item.id || item.socket_id || item.policy_id, when item.id is unset
NormalizeId(item) ==
    IF item.id # 0 THEN item
    ELSE [item EXCEPT !.id = IF item.socket_id # 0 THEN item.socket_id
                              ELSE item.policy_id]

\* the first of the keys, from index j on, under which data has a value
RECURSIVE FirstKey(_, _, _)
FirstKey(data, keys, j) ==
    IF j > Len(keys) THEN 0
    ELSE IF data.fields[keys[j]].present THEN j
    ELSE FirstKey(data, keys, j + 1)

\* mutant: a body that is itself the array is not recognised
ExtractListNoArray(data, keys) ==
    IF ~data.body THEN <<>>
    ELSE LET k == FirstKey(data, keys, 1)
             list == IF k # 0 THEN data.fields[keys[k]].value ELSE <<>>
         IN  [j \in 1..Len(list) |-> NormalizeId(list[j])]

\* extractList(data, keys)
ExtractList(data, keys) ==
    IF ~data.body THEN <<>>
    ELSE LET k == FirstKey(data, keys, 1)
             keyed == IF k # 0 THEN data.fields[keys[k]].value ELSE <<>>
             list == IF Len(keyed) = 0 /\ data.isArray THEN data.items ELSE keyed
         IN  [j \in 1..Len(list) |-> NormalizeId(list[j])]

\* extractList(resp.data, ['list', 'sockets']) for the sockets found, the
\* service answering in a shape and with an id key
Delivered(found, shape, key) ==
    ExtractList(Shaped(shape, [j \in 1..Len(found) |-> RawItem(found[j], key)]),
                <<"list", "sockets">>)

\* listSocketsByName(name)
ListSocketsByName(shape, key, name) ==
    Delivered(RemoteListSockets(name), shape, key)

\* what the handlers read of a listed socket
Seen(list) ==
    [j \in 1..Len(list) |->
       [id |-> list[j].id, name |-> list[j].name, policies |-> list[j].policies]]

\* the ids under which createSocket and updateSocket may return socket s
SocketAnswers(s) ==
    {CanonicalId(RawItem(s, key)).id : key \in IdKeys \cup {"both"}}

\* the socket_ids of a policy: the sockets it is attached to
SocketIdsOf(pid) == {s.id : s \in {x \in sockets : pid \in x.policies}}

\* GET /policies, with or without the embedded socket_ids field
RemoteListPolicies(embed) ==
    LET ids == SortIds({p.id : p \in policies})
    IN  [j \in 1..Len(ids) |->
           [id |-> ids[j], name |-> PolicyById(ids[j]).name,
            has_socket_ids |-> embed,
            socket_count |-> IF embed THEN Cardinality(SocketIdsOf(ids[j])) ELSE 0]]

\* extractList(resp.data, ['list', 'policies']) of the sweep, as the sweep
\* reads it, for the shapes and id keys the service may use
ListPolicies(embed) ==
    { [j \in 1..Len(list) |->
         [id |-> list[j].id, name |-> list[j].name,
          has_socket_ids |-> list[j].has_socket_ids,
          socket_count |-> list[j].socket_count]] :
      list \in { ExtractList(Shaped(shape, raw), <<"list", "policies">>) :
                 shape \in {"array", "list", "policies"},
                 raw \in { [j \in 1..Len(held) |-> RawPolicy(held[j], key)] :
                           key \in PolicyIdKeys,
                           held \in {RemoteListPolicies(embed)} } } }

\* DELETE /socket/<id>
RemoteDeleteSocket(id) == {s \in sockets : s.id # id}

\* DELETE /policy/<id>: the policy goes, and with it its attachments
RemoteDeletePolicySockets(id) ==
    {[s EXCEPT !.policies = @ \ {id}] : s \in sockets}

\* PUT /socket/<id>/policy with actions 'add'
RemoteAttach(id, ids) ==
    {IF s.id = id THEN [s EXCEPT !.policies = @ \cup {ids[j] : j \in 1..Len(ids)}]
     ELSE s : s \in sockets}

\* PUT /socket/<id>: the service sets the fields the payload carries, flat
\* or inside upstream_configuration, and leaves the others as they are
RemoteUpdateSocket(id, payload) ==
    LET K == DOMAIN payload
        Put(s) ==
          [s EXCEPT
             !.name = IF "name" \in K THEN payload.name ELSE @,
             !.connector_ids = IF "connector_ids" \in K THEN payload.connector_ids ELSE @,
             !.socket_type =
                 IF "upstream_configuration" \in K
                 THEN payload.upstream_configuration.service_type
                 ELSE IF "socket_type" \in K THEN payload.socket_type ELSE @,
             !.upstream_host =
                 IF "upstream_configuration" \in K
                      /\ "hostname" \in DOMAIN payload.upstream_configuration
                 THEN payload.upstream_configuration.hostname
                 ELSE IF "upstream_host" \in K THEN payload.upstream_host ELSE @,
             !.upstream_port =
                 IF "upstream_configuration" \in K
                      /\ "port" \in DOMAIN payload.upstream_configuration
                 THEN payload.upstream_configuration.port
                 ELSE IF "upstream_port" \in K THEN payload.upstream_port ELSE @]
    IN  {IF s.id = id THEN Put(s) ELSE s : s \in sockets}

\* a transport error may be injected while the fault budget lasts
Outcomes == IF faults < MaxFaults THEN {TRUE, FALSE} ELSE {TRUE}

Fault(ok) == faults' = IF ok THEN faults ELSE faults + 1

-----------------------------------------------------------------------------
(* Requests: performProvision and performDeprovision                       *)

IdleReq ==
    [kind |-> "none", pc |-> "idle", cid |-> <<>>, email |-> NoEmail,
     ip |-> NoIp, configs |-> [t \in {"ssh","vnc","web","tcp","rdp"} |-> [enable |-> FALSE, port |-> 0]],
     ti |-> 0, socket |-> 0, policyIds |-> <<>>,
     list |-> <<>>, si |-> 0, pp |-> <<>>, pi |-> 0,
     calls |-> <<>>, socket_ids |-> <<>>, count |-> 0, outcome |-> "none",
     options |-> NoOptions, labels |-> NoLabels]

Call(op, t, id, ids, ok) == [op |-> op, t |-> t, id |-> id, ids |-> ids, ok |-> ok]

Log(r, c) == [r EXCEPT !.calls = Append(@, c)]

\* an error raised out of the handler
Throw(r) == [r EXCEPT !.pc = "done", !.outcome = "error"]

Free(i) == req[i].pc = "idle"

\* a new handler takes the lowest free slot
LowestFree(i) == Free(i) /\ \A j \in Slots : j < i => ~Free(j)

\* const policies = GLOBAL_POLICY_ID ? [GLOBAL_POLICY_ID] : []
Predefined == IF globalPolicyId # 0 THEN <<globalPolicyId>> ELSE <<>>

\* the end of setupSocket for one type and the head of the loop for the next
TypeDone(r) ==
    LET n == NextType(r.configs, r.ti + 1)
        r1 == [r EXCEPT !.socket_ids = Append(@, r.socket), !.ti = n]
    IN  IF n > Len(Types) THEN [r1 EXCEPT !.pc = "done", !.outcome = "ok"]
        ELSE [r1 EXCEPT !.pc = "findSocket"]

\* mutant: the bulk attach is issued whatever the length of policyIds
AfterPolicyAlways(r) == [r EXCEPT !.pc = "attach"]

\* attachPolicies: if (policyIds.length > 0) bulk attach, else return
AfterPolicy(r) ==
    IF Len(r.policyIds) > 0 THEN [r EXCEPT !.pc = "attach"] ELSE TypeDone(r)

\* attachPolicies: policyIds = [...predefined]; if (user_email) look it up
EnterAttach(r) ==
    LET r1 == [r EXCEPT !.policyIds = Predefined]
    IN  IF r.email # NoEmail THEN [r1 EXCEPT !.pc = "findPolicy"]
        ELSE AfterPolicy(r1)

CurName(r) == SocketName(Types[r.ti], ShortId(r.cid))

\* mutant: the result of discovery is used without the test for a missing ip
StartProvisionUnchecked(i, cid, user_email, options, info) ==
    /\ LowestFree(i)
    /\ LET email == IF user_email # NoEmail THEN user_email
                    ELSE IF info.email # NoEmail THEN info.email
                    ELSE info.labels.email
           configs == [t \in {"ssh","vnc","web","tcp","rdp"} |-> GetSocketConfig(options, info, t)]
           n == NextType(configs, 1)
           r == [IdleReq EXCEPT !.kind = "provision", !.cid = cid]
           r1 == [r EXCEPT !.email = email, !.ip = info.ip,
                           !.configs = configs, !.ti = n]
       IN  req' = [req EXCEPT ![i] =
             IF n > Len(Types)
             THEN [r1 EXCEPT !.pc = "done", !.outcome = "ok"]
             ELSE [r1 EXCEPT !.pc = "findSocket"]]
    /\ UNCHANGED <<sockets, policies, nextSocketId, nextPolicyId,
                   globalPolicyId, prev, sweep, timers, faults>>

StartProvision(i, cid, user_email, options, info) ==
    /\ LowestFree(i)
    /\ LET email == IF user_email # NoEmail THEN user_email
                    ELSE IF info.email # NoEmail THEN info.email
                    ELSE info.labels.email
           configs == [t \in {"ssh","vnc","web","tcp","rdp"} |-> GetSocketConfig(options, info, t)]
           n == NextType(configs, 1)
           r == [IdleReq EXCEPT !.kind = "provision", !.cid = cid]
       IN  req' = [req EXCEPT ![i] =
             IF info.ip = NoIp
             THEN [r EXCEPT !.pc = "done", !.outcome = "notfound"]
             ELSE LET r1 == [r EXCEPT !.email = email, !.ip = info.ip,
                                      !.configs = configs, !.ti = n,
                                      !.options = options,
                                      !.labels = info.labels]
                  IN  IF n > Len(Types)
                      THEN [r1 EXCEPT !.pc = "done", !.outcome = "ok"]
                      ELSE [r1 EXCEPT !.pc = "findSocket"]]
    /\ UNCHANGED <<sockets, policies, nextSocketId, nextPolicyId,
                   globalPolicyId, prev, sweep, timers, faults>>

\* mutant: the exact-name match never succeeds
FindExactNever(list, name) == 0

\* list.find((s) => s.name === name) || null: the id found, 0 for null
FindExact(list, name) ==
    IF \E j \in 1..Len(list) : list[j].name = name
    THEN list[CHOOSE j \in 1..Len(list) :
                /\ list[j].name = name
                /\ \A k \in 1..(j - 1) : list[k].name # name].id
    ELSE 0

\* mutant: a failed lookup by name is issued again
FindSocketRetries(i) ==
    /\ req[i].pc = "findSocket"
    /\ \E ok \in Outcomes,
          found \in LET held == RemoteListSockets(CurName(req[i]))
                    IN  {FindExact(Seen(Delivered(held, shape, key)), CurName(req[i])) :
                           shape \in Shapes, key \in IdKeys} :
         /\ Fault(ok)
         /\ LET r == req[i]
                r1 == Log(r, Call("findSocket", r.ti, found, <<>>, ok))
            IN  req' = [req EXCEPT ![i] =
                  IF ~ok THEN r1
                  ELSE IF found # 0
                       THEN [r1 EXCEPT !.socket = found, !.pc = "updateSocket"]
                       ELSE [r1 EXCEPT !.socket = 0, !.pc = "createSocket"]]
    /\ UNCHANGED <<sockets, policies, nextSocketId, nextPolicyId,
                   globalPolicyId, prev, sweep, timers>>

\* findSocketByName: one GET /sockets, its result searched for the exact name
FindSocket(i) ==
    /\ req[i].pc = "findSocket"
    /\ \E ok \in Outcomes,
          found \in LET held == RemoteListSockets(CurName(req[i]))
                    IN  {FindExact(Seen(Delivered(held, shape, key)), CurName(req[i])) :
                           shape \in Shapes, key \in IdKeys} :
         /\ Fault(ok)
         /\ LET r == req[i]
                r1 == Log(r, Call("findSocket", r.ti, found, <<>>, ok))
            IN  req' = [req EXCEPT ![i] =
                  IF ~ok THEN Throw(r1)
                  ELSE IF found # 0
                       THEN [r1 EXCEPT !.socket = found, !.pc = "updateSocket"]
                       ELSE [r1 EXCEPT !.socket = 0, !.pc = "createSocket"]]
    /\ UNCHANGED <<sockets, policies, nextSocketId, nextPolicyId,
                   globalPolicyId, prev, sweep, timers>>

\* BORDER0_SSH_USERNAME, by default
SshUsername == "coder"

\* mutant: the update payload also names the service type
UpdatePayloadWithType(r) ==
    [upstream_host |-> r.ip,
     upstream_port |-> r.configs[Types[r.ti]].port,
     socket_type |-> Border0Type(Types[r.ti])]

\* updatePayload of setupSocket
UpdatePayload(r) ==
    IF Border0Type(Types[r.ti]) = "ssh"
    THEN [upstream_host |-> r.ip,
          upstream_port |-> r.configs[Types[r.ti]].port,
          ssh_authentication_type |-> "border0_certificate",
          ssh_username |-> SshUsername]
    ELSE [upstream_host |-> r.ip,
          upstream_port |-> r.configs[Types[r.ti]].port]

\* buildUpstreamConfig: service_type, and host and port for the known types
BuildUpstreamConfig(socket_type, host, port) ==
    IF socket_type \in {"ssh", "vnc", "http", "rdp", "database"}
    THEN [service_type |-> socket_type, hostname |-> host, port |-> port]
    ELSE [service_type |-> socket_type]

\* updateSocket: a payload with upstream_host, upstream_port and socket_type,
\* all truthy, has the three replaced by upstream_configuration
WrapPayload(p) ==
    IF /\ {"upstream_host", "upstream_port", "socket_type"} \subseteq DOMAIN p
       /\ p.upstream_host # NoIp
       /\ p.upstream_port # 0
    THEN ("upstream_configuration" :>
              BuildUpstreamConfig(p.socket_type, p.upstream_host, p.upstream_port))
         @@ [k \in DOMAIN p \ {"upstream_host", "upstream_port", "socket_type"} |-> p[k]]
    ELSE p

\* mutant: the update path returns the socket without attaching policies
UpdateSocketNoAttach(i) ==
    /\ req[i].pc = "updateSocket"
    /\ \E ok \in Outcomes :
         /\ Fault(ok)
         /\ LET r == req[i]
                done == ok /\ SocketExists(r.socket)
                r1 == Log(r, Call("updateSocket", r.ti, r.socket, <<>>, done))
            IN  /\ req' = [req EXCEPT ![i] =
                      IF done THEN TypeDone(r1) ELSE Throw(r1)]
                /\ sockets' = IF done
                              THEN RemoteUpdateSocket(r.socket,
                                       WrapPayload(UpdatePayload(r)))
                              ELSE sockets
    /\ UNCHANGED <<policies, nextPolicyId, nextSocketId, globalPolicyId,
                   prev, sweep, timers>>

UpdateSocket(i) ==
    /\ req[i].pc = "updateSocket"
    /\ \E ok \in Outcomes :
         /\ Fault(ok)
         /\ LET r == req[i]
                done == ok /\ SocketExists(r.socket)
                r1 == Log(r, Call("updateSocket", r.ti, r.socket, <<>>, done))
            IN  /\ \E sid \in (IF done THEN SocketAnswers(SocketById(r.socket))
                                ELSE {0}) :
                      req' = [req EXCEPT ![i] =
                        IF done THEN EnterAttach([r1 EXCEPT !.socket = sid])
                        ELSE Throw(r1)]
                /\ sockets' = IF done
                              THEN RemoteUpdateSocket(r.socket,
                                       WrapPayload(UpdatePayload(r)))
                              ELSE sockets
    /\ UNCHANGED <<policies, nextSocketId, nextPolicyId, globalPolicyId,
                   prev, sweep, timers>>

CreateSocket(i) ==
    /\ req[i].pc = "createSocket"
    /\ nextSocketId <= MaxSockets
    /\ \E ok \in Outcomes :
         /\ Fault(ok)
         /\ LET r == req[i]
                s == [id |-> nextSocketId, name |-> CurName(r),
                      socket_type |-> Border0Type(Types[r.ti]),
                      upstream_host |-> r.ip,
                      upstream_port |-> r.configs[Types[r.ti]].port,
                      connector_ids |-> <<ConnectorId>>,
                      policies |-> {},
                      owner |-> r.cid]
            IN  /\ \E sid \in (IF ok THEN SocketAnswers(s) ELSE {0}) :
                      LET r1 == Log(r, Call("createSocket", r.ti, sid, <<>>, ok))
                      IN  req' = [req EXCEPT ![i] =
                            IF ok THEN EnterAttach([r1 EXCEPT !.socket = sid])
                            ELSE Throw(r1)]
                /\ sockets' = IF ok THEN sockets \cup {s} ELSE sockets
                /\ nextSocketId' = IF ok THEN nextSocketId + 1 ELSE nextSocketId
    /\ UNCHANGED <<policies, nextPolicyId, globalPolicyId, prev, sweep, timers>>

\* mutant: every answer of the lookup is taken for a miss
FindPolicyByNameNever(name) == {}

\* findPolicyByName: GET /policies/find?name= answers with the policy of that
\* name or with a 404, which becomes null (here: no id)
FindPolicyByName(name) == {p.id : p \in {x \in policies : x.name = name}}

\* mutant: every failure of the lookup is taken as "no such policy"
FindPolicyLenient(i) ==
    /\ req[i].pc = "findPolicy"
    /\ \E ok \in Outcomes :
         /\ Fault(ok)
         /\ LET r == req[i]
                hits == FindPolicyByName(PolicyName(r.email))
            IN  \E hit \in (IF hits = {} THEN {0} ELSE hits) :
                  LET r1 == Log(r, Call("findPolicy", r.ti, hit, <<>>, ok))
                  IN  req' = [req EXCEPT ![i] =
                        IF ~ok \/ hit = 0 THEN [r1 EXCEPT !.pc = "createPolicy"]
                        ELSE AfterPolicy([r1 EXCEPT !.policyIds = Append(@, hit)])]
    /\ UNCHANGED <<sockets, policies, nextSocketId, nextPolicyId,
                   globalPolicyId, prev, sweep, timers>>

\* findPolicyByName outside any try: null on a 404, every other error raised
FindPolicy(i) ==
    /\ req[i].pc = "findPolicy"
    /\ \E ok \in Outcomes :
         /\ Fault(ok)
         /\ LET r == req[i]
                hits == FindPolicyByName(PolicyName(r.email))
            IN  \E hit \in (IF hits = {} THEN {0} ELSE hits) :
                  LET r1 == Log(r, Call("findPolicy", r.ti, hit, <<>>, ok))
                  IN  req' = [req EXCEPT ![i] =
                        IF ~ok THEN Throw(r1)
                        ELSE IF hit = 0 THEN [r1 EXCEPT !.pc = "createPolicy"]
                        ELSE AfterPolicy([r1 EXCEPT !.policyIds = Append(@, hit)])]
    /\ UNCHANGED <<sockets, policies, nextSocketId, nextPolicyId,
                   globalPolicyId, prev, sweep, timers>>

\* mutant: the failure of POST /policies is raised to the caller
CreatePolicyRaises(i) ==
    /\ req[i].pc = "createPolicy"
    /\ nextPolicyId <= MaxPolicies
    /\ \E ok \in Outcomes :
         /\ Fault(ok)
         /\ LET r == req[i]
                p == [id |-> GlobalPolicy + nextPolicyId,
                      name |-> PolicyName(r.email), email |-> r.email]
                r1 == Log(r, Call("createPolicy", r.ti, IF ok THEN p.id ELSE 0, <<>>, ok))
            IN  /\ req' = [req EXCEPT ![i] =
                      IF ok THEN AfterPolicy([r1 EXCEPT !.policyIds = Append(@, p.id)])
                      ELSE Throw(r1)]
                /\ policies' = IF ok THEN policies \cup {p} ELSE policies
                /\ nextPolicyId' = IF ok THEN nextPolicyId + 1 ELSE nextPolicyId
    /\ UNCHANGED <<sockets, nextSocketId, globalPolicyId, prev, sweep, timers>>

\* POST /policies inside try/catch: a failure is logged and swallowed
CreatePolicy(i) ==
    /\ req[i].pc = "createPolicy"
    /\ nextPolicyId <= MaxPolicies
    /\ \E ok \in Outcomes :
         /\ Fault(ok)
         /\ LET r == req[i]
                p == [id |-> GlobalPolicy + nextPolicyId,
                      name |-> PolicyName(r.email), email |-> r.email]
                r1 == Log(r, Call("createPolicy", r.ti, IF ok THEN p.id ELSE 0, <<>>, ok))
            IN  /\ req' = [req EXCEPT ![i] =
                      IF ok THEN AfterPolicy([r1 EXCEPT !.policyIds = Append(@, p.id)])
                      ELSE AfterPolicy(r1)]
                /\ policies' = IF ok THEN policies \cup {p} ELSE policies
                /\ nextPolicyId' = IF ok THEN nextPolicyId + 1 ELSE nextPolicyId
    /\ UNCHANGED <<sockets, nextSocketId, globalPolicyId, prev, sweep, timers>>

\* mutant: a failed attach is compensated by deleting the sockets the request
\* has set up so far
AttachPoliciesCompensates(i) ==
    /\ req[i].pc = "attach"
    /\ \E ok \in Outcomes :
         /\ Fault(ok)
         /\ LET r == req[i]
                done == /\ ok
                        /\ SocketExists(r.socket)
                        /\ \A j \in 1..Len(r.policyIds) : PolicyExists(r.policyIds[j])
                r1 == Log(r, Call("attach", r.ti, r.socket, r.policyIds, done))
                mine == {r.socket} \cup {r.socket_ids[j] : j \in 1..Len(r.socket_ids)}
            IN  /\ req' = [req EXCEPT ![i] =
                      IF done THEN TypeDone(r1) ELSE Throw(r1)]
                /\ sockets' = IF done THEN RemoteAttach(r.socket, r.policyIds)
                              ELSE {x \in sockets : x.id \notin mine}
    /\ UNCHANGED <<policies, nextSocketId, nextPolicyId, globalPolicyId,
                   prev, sweep, timers>>

AttachPolicies(i) ==
    /\ req[i].pc = "attach"
    /\ \E ok \in Outcomes :
         /\ Fault(ok)
         /\ LET r == req[i]
                done == /\ ok
                        /\ SocketExists(r.socket)
                        /\ \A j \in 1..Len(r.policyIds) : PolicyExists(r.policyIds[j])
                r1 == Log(r, Call("attach", r.ti, r.socket, r.policyIds, done))
            IN  /\ req' = [req EXCEPT ![i] =
                      IF done THEN TypeDone(r1) ELSE Throw(r1)]
                /\ sockets' = IF done THEN RemoteAttach(r.socket, r.policyIds)
                              ELSE sockets
    /\ UNCHANGED <<policies, nextSocketId, nextPolicyId, globalPolicyId,
                   prev, sweep, timers>>

-----------------------------------------------------------------------------
(* performDeprovision                                                      *)

\* mutant: the policies of the socket are taken unfiltered
PersonalPoliciesAll(ps) == ps

\* (s.policies || []).filter(p => p.name.startsWith('user-policy-'))
PersonalPolicies(ps) == SelectSeq(ps, LAMBDA p : IsPersonal(p.name))

\* mutant: the outer loop stops one socket short of the end of the listing
NextSocketStopsShort(r, n) ==
    IF n >= Len(r.list)
    THEN [r EXCEPT !.pc = "done", !.outcome = "ok", !.count = Len(r.list),
                   !.si = n, !.pp = <<>>, !.pi = 0]
    ELSE [r EXCEPT !.pc = "deleteSocket", !.si = n,
                   !.pp = PersonalPolicies(r.list[n].policies), !.pi = 0]

\* the head of the outer loop for the socket at index n of the listing
NextSocket(r, n) ==
    IF n > Len(r.list)
    THEN [r EXCEPT !.pc = "done", !.outcome = "ok", !.count = Len(r.list),
                   !.si = n, !.pp = <<>>, !.pi = 0]
    ELSE [r EXCEPT !.pc = "deleteSocket", !.si = n,
                   !.pp = PersonalPolicies(r.list[n].policies), !.pi = 0]

\* the head of the inner loop for the policy at index n of personalPolicies
NextPolicy(r, n) ==
    IF n > Len(r.pp) THEN NextSocket(r, r.si + 1)
    ELSE [r EXCEPT !.pc = "countPolicy", !.pi = n]

StartDeprovision(i, cid) ==
    /\ LowestFree(i)
    /\ req' = [req EXCEPT ![i] =
         [IdleReq EXCEPT !.kind = "deprovision", !.cid = cid, !.pc = "listSockets"]]
    /\ UNCHANGED <<sockets, policies, nextSocketId, nextPolicyId,
                   globalPolicyId, prev, sweep, timers, faults>>

ListSockets(i) ==
    /\ req[i].pc = "listSockets"
    /\ \E ok \in Outcomes,
          listed \in LET held == RemoteListSockets(ShortId(req[i].cid))
                     IN  {Seen(Delivered(held, shape, key)) :
                            shape \in Shapes, key \in IdKeys} :
         /\ Fault(ok)
         /\ LET r == req[i]
                list == IF ok THEN listed ELSE <<>>
                r1 == Log(r, Call("listSockets", 0, 0,
                                  [j \in 1..Len(list) |-> list[j].id], ok))
            IN  req' = [req EXCEPT ![i] =
                  IF ok THEN NextSocket([r1 EXCEPT !.list = list], 1)
                  ELSE Throw(r1)]
    /\ UNCHANGED <<sockets, policies, nextSocketId, nextPolicyId,
                   globalPolicyId, prev, sweep, timers>>

DeleteSocket(i) ==
    /\ req[i].pc = "deleteSocket"
    /\ \E ok \in Outcomes :
         /\ Fault(ok)
         /\ LET r == req[i]
                id == r.list[r.si].id
                done == ok /\ SocketExists(id)
                r1 == Log(r, Call("deleteSocket", 0, id, <<>>, done))
            IN  /\ req' = [req EXCEPT ![i] =
                      IF done THEN NextPolicy(r1, 1) ELSE Throw(r1)]
                /\ sockets' = IF done THEN RemoteDeleteSocket(id) ELSE sockets
    /\ UNCHANGED <<policies, nextSocketId, nextPolicyId, globalPolicyId,
                   prev, sweep, timers>>

\* mutant: the policy is deleted whatever the count says
CountPolicyIgnored(i) ==
    /\ req[i].pc = "countPolicy"
    /\ \E ok \in Outcomes :
         /\ Fault(ok)
         /\ LET r == req[i]
                id == r.pp[r.pi].id
                n == IF PolicyExists(id) THEN Cardinality(SocketIdsOf(id)) ELSE 0
                r1 == Log(r, Call("countPolicy", 0, id, <<n>>, ok))
            IN  req' = [req EXCEPT ![i] =
                  IF ~ok THEN Throw(r1) ELSE [r1 EXCEPT !.pc = "deletePolicy"]]
    /\ UNCHANGED <<sockets, policies, nextSocketId, nextPolicyId,
                   globalPolicyId, prev, sweep, timers>>

\* mutant: a 404 of the count lookup is raised like every other error
CountPolicyRaises404(i) ==
    /\ req[i].pc = "countPolicy"
    /\ \E ok \in Outcomes :
         /\ Fault(ok)
         /\ LET r == req[i]
                id == r.pp[r.pi].id
                n == IF PolicyExists(id) THEN Cardinality(SocketIdsOf(id)) ELSE 0
                r1 == Log(r, Call("countPolicy", 0, id, <<n>>, ok))
            IN  req' = [req EXCEPT ![i] =
                  IF ~ok \/ ~PolicyExists(id) THEN Throw(r1)
                  ELSE IF n = 0 THEN [r1 EXCEPT !.pc = "deletePolicy"]
                  ELSE NextPolicy(r1, r.pi + 1)]
    /\ UNCHANGED <<sockets, policies, nextSocketId, nextPolicyId,
                   globalPolicyId, prev, sweep, timers>>

\* getSocketCountByPolicy: socket_ids?.length || 0, and 0 on a 404
CountPolicy(i) ==
    /\ req[i].pc = "countPolicy"
    /\ \E ok \in Outcomes :
         /\ Fault(ok)
         /\ LET r == req[i]
                id == r.pp[r.pi].id
                n == IF PolicyExists(id) THEN Cardinality(SocketIdsOf(id)) ELSE 0
                r1 == Log(r, Call("countPolicy", 0, id, <<n>>, ok))
            IN  req' = [req EXCEPT ![i] =
                  IF ~ok THEN Throw(r1)
                  ELSE IF n = 0 THEN [r1 EXCEPT !.pc = "deletePolicy"]
                  ELSE NextPolicy(r1, r.pi + 1)]
    /\ UNCHANGED <<sockets, policies, nextSocketId, nextPolicyId,
                   globalPolicyId, prev, sweep, timers>>

\* mutant: a failure of the policy delete is raised out of the teardown
DeletePolicyRaises(i) ==
    /\ req[i].pc = "deletePolicy"
    /\ \E ok \in Outcomes :
         /\ Fault(ok)
         /\ LET r == req[i]
                id == r.pp[r.pi].id
                done == ok /\ PolicyExists(id)
                r1 == Log(r, Call("deletePolicy", 0, id, <<>>, done))
            IN  /\ req' = [req EXCEPT ![i] =
                      IF done THEN NextPolicy(r1, r.pi + 1) ELSE Throw(r1)]
                /\ policies' = IF done THEN {p \in policies : p.id # id} ELSE policies
                /\ sockets' = IF done THEN RemoteDeletePolicySockets(id) ELSE sockets
    /\ UNCHANGED <<nextSocketId, nextPolicyId, globalPolicyId, prev, sweep, timers>>

\* deletePolicy(p.id).catch(log): a failure does not leave the loop
DeletePolicy(i) ==
    /\ req[i].pc = "deletePolicy"
    /\ \E ok \in Outcomes :
         /\ Fault(ok)
         /\ LET r == req[i]
                id == r.pp[r.pi].id
                done == ok /\ PolicyExists(id)
                r1 == Log(r, Call("deletePolicy", 0, id, <<>>, done))
            IN  /\ req' = [req EXCEPT ![i] = NextPolicy(r1, r.pi + 1)]
                /\ policies' = IF done THEN {p \in policies : p.id # id} ELSE policies
                /\ sockets' = IF done THEN RemoteDeletePolicySockets(id) ELSE sockets
    /\ UNCHANGED <<nextSocketId, nextPolicyId, globalPolicyId, prev, sweep, timers>>

\* the status of the answer: res.json(...) on success, res.status(500) from
\* the catch of the route handler for every error raised
Status(r) == IF r.outcome = "ok" THEN 200 ELSE 500

\* what is kept of a finished handler: for a provisioning that succeeded its
\* inputs and its remote calls, for anything else only kind and outcome
Summary(r) ==
    IF r.kind = "provision" /\ r.outcome = "ok"
    THEN [IdleReq EXCEPT !.kind = r.kind, !.outcome = r.outcome, !.cid = r.cid,
                         !.email = r.email, !.ip = r.ip, !.configs = r.configs,
                         !.calls = r.calls, !.socket_ids = r.socket_ids]
    ELSE [IdleReq EXCEPT !.kind = r.kind, !.outcome = r.outcome]

\* the route handler answers (res.json) and the handler is gone; with keep
\* the history variable prev remembers what it did
Reply(i, keep) ==
    /\ req[i].pc = "done"
    /\ req' = [req EXCEPT ![i] = IdleReq]
    /\ prev' = IF keep THEN [prev EXCEPT ![i] = Summary(req[i])] ELSE prev
    /\ UNCHANGED <<sockets, policies, nextSocketId, nextPolicyId,
                   globalPolicyId, sweep, timers, faults>>

-----------------------------------------------------------------------------
(* performPolicyMaintenance and scheduleMaintenance                        *)

LatencyThreshold == 5000
JitterWindow == 5 * 60 * 1000
Hour == 60 * 60 * 1000

\* the sweep durations (Date.now() - start) the model distinguishes
Durations == {50, 5000, 5001, 6000}

\* Math.floor(Math.random() * range), Math.random() = k / RandSteps
RandomBelow(range, k) == (k * range) \div RandSteps

\* mutant: the first delay is drawn from a day
InitialDelayOfDay(k) == RandomBelow(24 * Hour, k)

\* initialDelay = Math.floor(Math.random() * 60 * 60 * 1000)
InitialDelay(k) == RandomBelow(Hour, k)

IdleSweep ==
    [pc |-> "idle", list |-> <<>>, idx |-> 0,
     calls |-> <<>>, success |-> FALSE, duration |-> 0]

\* mutant: a failure leaves performPolicyMaintenance as an exception
ReturnRaises(r, success, d) ==
    IF success THEN [r EXCEPT !.pc = "returned", !.success = TRUE, !.duration = d]
    ELSE [r EXCEPT !.pc = "raised"]

\* return { success, duration: Date.now() - start }
Return(r, success, d) ==
    [r EXCEPT !.pc = "returned", !.success = success, !.duration = d]

\* mutant: the test of the embedded count is inverted
RECURSIVE SweepLoopInverted(_, _, _)
SweepLoopInverted(r, n, d) ==
    IF n > Len(r.list) THEN Return([r EXCEPT !.idx = n], TRUE, d)
    ELSE LET p == r.list[n]
         IN  IF ~IsPersonal(p.name) THEN SweepLoopInverted(r, n + 1, d)
             ELSE IF ~p.has_socket_ids THEN [r EXCEPT !.pc = "countPolicy", !.idx = n]
             ELSE IF p.socket_count # 0
                  THEN [r EXCEPT !.pc = "deletePolicy", !.idx = n]
                  ELSE SweepLoopInverted(r, n + 1, d)

\* the loop over the listing from index n on: skip what is not personal, take
\* an embedded count as it is, stop at the next remote call
RECURSIVE SweepLoop(_, _, _)
SweepLoop(r, n, d) ==
    IF n > Len(r.list) THEN Return([r EXCEPT !.idx = n], TRUE, d)
    ELSE LET p == r.list[n]
         IN  IF ~IsPersonal(p.name) THEN SweepLoop(r, n + 1, d)
             ELSE IF ~p.has_socket_ids THEN [r EXCEPT !.pc = "countPolicy", !.idx = n]
             ELSE IF p.socket_count = 0
                  THEN [r EXCEPT !.pc = "deletePolicy", !.idx = n]
                  ELSE SweepLoop(r, n + 1, d)

SweepFree(k) == sweep[k].pc = "idle"

\* mutant: the timer repeats (setInterval): it stays armed when it fires
TimerFireRepeats(k) ==
    /\ SweepFree(k) /\ \A j \in SweepSlots : j < k => ~SweepFree(j)
    /\ Len(timers) > 0
    /\ sweep' = [sweep EXCEPT ![k] = [IdleSweep EXCEPT !.pc = "listPolicies"]]
    /\ UNCHANGED <<sockets, policies, nextSocketId, nextPolicyId,
                   globalPolicyId, req, prev, timers, faults>>

\* a timer fires: scheduleMaintenance starts and calls the sweep
TimerFire(k) ==
    /\ SweepFree(k) /\ \A j \in SweepSlots : j < k => ~SweepFree(j)
    /\ \E j \in 1..Len(timers) :
         timers' = [m \in 1..(Len(timers) - 1) |->
                      IF m < j THEN timers[m] ELSE timers[m + 1]]
    /\ sweep' = [sweep EXCEPT ![k] = [IdleSweep EXCEPT !.pc = "listPolicies"]]
    /\ UNCHANGED <<sockets, policies, nextSocketId, nextPolicyId,
                   globalPolicyId, req, prev, faults>>

SweepList(k) ==
    /\ sweep[k].pc = "listPolicies"
    /\ \E ok \in Outcomes, embed \in BOOLEAN, d \in Durations :
         /\ Fault(ok)
         /\ \E listed \in ListPolicies(embed) :
              LET r == sweep[k]
                  r1 == [r EXCEPT !.calls = Append(@, Call("listPolicies", 0, 0, <<>>, ok))]
              IN  sweep' = [sweep EXCEPT ![k] =
                    IF ok THEN SweepLoop([r1 EXCEPT !.list = listed], 1, d)
                    ELSE Return(r1, FALSE, d)]
    /\ UNCHANGED <<sockets, policies, nextSocketId, nextPolicyId,
                   globalPolicyId, req, prev, timers>>

SweepCount(k) ==
    /\ sweep[k].pc = "countPolicy"
    /\ \E ok \in Outcomes, d \in Durations :
         /\ Fault(ok)
         /\ LET r == sweep[k]
                id == r.list[r.idx].id
                n == IF PolicyExists(id) THEN Cardinality(SocketIdsOf(id)) ELSE 0
                r1 == [r EXCEPT !.calls = Append(@, Call("countPolicy", 0, id, <<n>>, ok))]
            IN  sweep' = [sweep EXCEPT ![k] =
                  IF ~ok THEN Return(r1, FALSE, d)
                  ELSE IF n = 0
                       THEN [r1 EXCEPT !.pc = "deletePolicy"]
                       ELSE SweepLoop(r1, r.idx + 1, d)]
    /\ UNCHANGED <<sockets, policies, nextSocketId, nextPolicyId,
                   globalPolicyId, req, prev, timers>>

\* mutant: a policy delete that fails is skipped and the loop goes on
SweepDeleteGoesOn(k) ==
    /\ sweep[k].pc = "deletePolicy"
    /\ \E ok \in Outcomes, d \in Durations :
         /\ Fault(ok)
         /\ LET r == sweep[k]
                id == r.list[r.idx].id
                done == ok /\ PolicyExists(id)
                r1 == [r EXCEPT !.calls = Append(@, Call("deletePolicy", 0, id, <<>>, done))]
            IN  /\ sweep' = [sweep EXCEPT ![k] = SweepLoop(r1, r.idx + 1, d)]
                /\ policies' = IF done THEN {p \in policies : p.id # id} ELSE policies
                /\ sockets' = IF done THEN RemoteDeletePolicySockets(id) ELSE sockets
    /\ UNCHANGED <<nextSocketId, nextPolicyId, globalPolicyId, req, prev, timers>>

SweepDelete(k) ==
    /\ sweep[k].pc = "deletePolicy"
    /\ \E ok \in Outcomes, d \in Durations :
         /\ Fault(ok)
         /\ LET r == sweep[k]
                id == r.list[r.idx].id
                done == ok /\ PolicyExists(id)
                r1 == [r EXCEPT !.calls = Append(@, Call("deletePolicy", 0, id, <<>>, done))]
            IN  /\ sweep' = [sweep EXCEPT ![k] =
                      IF done THEN SweepLoop(r1, r.idx + 1, d)
                      ELSE Return(r1, FALSE, d)]
                /\ policies' = IF done THEN {p \in policies : p.id # id} ELSE policies
                /\ sockets' = IF done THEN RemoteDeletePolicySockets(id) ELSE sockets
    /\ UNCHANGED <<nextSocketId, nextPolicyId, globalPolicyId, req, prev, timers>>

\* mutant: the latency test is >= instead of >
NextDelayAtThreshold(success, duration, k) ==
    IF duration >= LatencyThreshold \/ ~success
    THEN RandomBelow(JitterWindow, k)
    ELSE Hour

\* the delay scheduleMaintenance computes from the stats of the sweep
NextDelay(success, duration, k) ==
    IF duration > LatencyThreshold \/ ~success
    THEN RandomBelow(JitterWindow, k)
    ELSE Hour

\* mutant: the next timer is armed only after a sweep that succeeded
ArmAfterSuccess(k) ==
    /\ sweep[k].pc = "returned"
    /\ \E rnd \in 0..(RandSteps - 1) :
         timers' = IF sweep[k].success
                   THEN Append(timers, NextDelay(TRUE, sweep[k].duration, rnd))
                   ELSE timers
    /\ sweep' = [sweep EXCEPT ![k] = IdleSweep]
    /\ UNCHANGED <<sockets, policies, nextSocketId, nextPolicyId,
                   globalPolicyId, req, prev, faults>>

\* the sweep has returned: setTimeout(scheduleMaintenance, nextDelay)
Arm(k) ==
    /\ sweep[k].pc = "returned"
    /\ \E rnd \in 0..(RandSteps - 1) :
         timers' = Append(timers, NextDelay(sweep[k].success, sweep[k].duration, rnd))
    /\ sweep' = [sweep EXCEPT ![k] = IdleSweep]
    /\ UNCHANGED <<sockets, policies, nextSocketId, nextPolicyId,
                   globalPolicyId, req, prev, faults>>

-----------------------------------------------------------------------------
(* Auto-provisioning: the callback given to discovery.startWatching        *)

\* mutant: a start event provisions whatever the label says
WatchStartUnlabelled(i, cid, info) ==
    StartProvision(i, cid, NoEmail, NoOptions, info)

\* type === 'start': provision when labels['border0.io/enable'] === 'true'
WatchStart(i, cid, info) ==
    IF info.labels.auto = "true"
    THEN StartProvision(i, cid, NoEmail, NoOptions, info)
    ELSE /\ LowestFree(i)
         /\ req' = [req EXCEPT ![i] =
               [IdleReq EXCEPT !.kind = "start", !.cid = cid, !.pc = "done",
                               !.outcome = "ignored", !.labels = info.labels]]
         /\ UNCHANGED <<sockets, policies, nextSocketId, nextPolicyId,
                        globalPolicyId, prev, sweep, timers, faults>>

\* type === 'stop': performDeprovision(containerId)
WatchStop(i, cid) == StartDeprovision(i, cid)

-----------------------------------------------------------------------------
(* The process                                                             *)

Init ==
    /\ sockets = {}
    /\ policies = {[id |-> GlobalPolicy, name |-> MgmtPolicyName, email |-> NoEmail]}
    /\ nextSocketId = 1
    /\ nextPolicyId = 1
    /\ globalPolicyId \in {0, GlobalPolicy}
    /\ req = [i \in Slots |-> IdleReq]
    /\ prev = [i \in Slots |-> IdleReq]
    /\ sweep = [k \in SweepSlots |-> IdleSweep]
    /\ \E rnd \in 0..(RandSteps - 1) : timers = <<InitialDelay(rnd)>>
    /\ faults = 0

NoRequest == \A i \in Slots : req[i].pc = "idle"

NoSweep == \A k \in SweepSlots : sweep[k].pc = "idle"

\* requests and sweeps one at a time: a request is accepted, and a timer
\* fires, only when no handler is in flight
Provision ==
    \E i \in Slots, cid \in ContainerIds, e \in {NoEmail, Email1},
       o \in OptionSet, info \in InfoSet :
        NoRequest /\ NoSweep /\ StartProvision(i, cid, e, o, info)

Deprovision ==
    \E i \in Slots, cid \in ContainerIds :
        NoRequest /\ NoSweep /\ StartDeprovision(i, cid)

Timer == \E k \in SweepSlots : NoRequest /\ TimerFire(k)

ProvisionStep ==
    \E i \in Slots :
        \/ FindSocket(i) \/ UpdateSocket(i) \/ CreateSocket(i)
        \/ FindPolicy(i) \/ CreatePolicy(i) \/ AttachPolicies(i)

DeprovisionStep ==
    \E i \in Slots :
        \/ ListSockets(i) \/ DeleteSocket(i) \/ CountPolicy(i) \/ DeletePolicy(i)

SweepStep ==
    \E k \in SweepSlots : SweepList(k) \/ SweepCount(k) \/ SweepDelete(k) \/ Arm(k)

Respond == \E i \in Slots : Reply(i, FALSE)

Next ==
    \/ Provision \/ Deprovision \/ Timer
    \/ ProvisionStep \/ DeprovisionStep \/ Respond \/ SweepStep

Spec == Init /\ [][Next]_vars

\* The requests of one workload alone, with the history of the handler that
\* finished last: what two calls in succession do.
ProvisionOne ==
    \E i \in Slots, e \in {NoEmail, Email1}, o \in OptionSet, info \in InfoSet :
        NoRequest /\ StartProvision(i, Cid1, e, o, info)

DeprovisionOne == \E i \in Slots : NoRequest /\ StartDeprovision(i, Cid1)

RespondKept == \E i \in Slots : Reply(i, TRUE)

NextTwice ==
    \/ ProvisionOne \/ DeprovisionOne
    \/ ProvisionStep \/ DeprovisionStep \/ RespondKept

SpecTwice == Init /\ [][NextTwice]_vars

\* The maintenance loop alone, over remote states that provisioning and
\* teardown leave behind; timers fire and remote calls come back.
Socket1 ==
    [id |-> 1, name |-> SocketName("ssh", ShortId(Cid1)), socket_type |-> "ssh",
     upstream_host |-> Ip1, upstream_port |-> 22,
     connector_ids |-> <<ConnectorId>>, policies |-> {GlobalPolicy + 1},
     owner |-> Cid1]

Policy0 == [id |-> GlobalPolicy, name |-> MgmtPolicyName, email |-> NoEmail]

Policy1 == [id |-> GlobalPolicy + 1, name |-> PolicyName(Email1), email |-> Email1]

Policy2 == [id |-> GlobalPolicy + 2, name |-> PolicyName(Email2), email |-> Email2]

SchedRemotes ==
    { [sockets |-> {}, policies |-> {Policy0}],
      [sockets |-> {Socket1}, policies |-> {Policy0, Policy1}],
      [sockets |-> {}, policies |-> {Policy0, Policy1}],
      [sockets |-> {}, policies |-> {Policy0, Policy1, Policy2}] }

SchedInit ==
    /\ \E rs \in SchedRemotes :
         /\ sockets = rs.sockets
         /\ policies = rs.policies
         /\ nextSocketId = Cardinality(rs.sockets) + 1
         /\ nextPolicyId = Cardinality(rs.policies)
    /\ globalPolicyId \in {0, GlobalPolicy}
    /\ req = [i \in Slots |-> IdleReq]
    /\ prev = [i \in Slots |-> IdleReq]
    /\ sweep = [k \in SweepSlots |-> IdleSweep]
    /\ \E rnd \in 0..(RandSteps - 1) : timers = <<InitialDelay(rnd)>>
    /\ faults = 0

SchedNext == Timer \/ SweepStep

SpecSched ==
    SchedInit /\ [][SchedNext]_vars /\ WF_vars(Timer) /\ WF_vars(SweepStep)

\* The requests of one workload and the maintenance loop side by side, as the
\* event loop runs them: a timer fires whenever it is armed, and the steps of
\* a sweep interleave with the steps of the request in flight.
ProvisionBeside ==
    \E i \in Slots, info \in InfoSet :
        NoRequest /\ StartProvision(i, Cid1, Email1, NoOptions, info)

DeprovisionBeside == \E i \in Slots : NoRequest /\ StartDeprovision(i, Cid1)

TimerBeside == \E k \in SweepSlots : TimerFire(k)

NextBeside ==
    \/ ProvisionBeside \/ DeprovisionBeside \/ TimerBeside
    \/ ProvisionStep \/ DeprovisionStep \/ Respond \/ SweepStep

SpecBeside == Init /\ [][NextBeside]_vars

\* Auto-provisioning, one event at a time: the handler of an event has
\* finished before the next event is delivered.
AutoStart ==
    \E i \in Slots, info \in WatchInfoSet :
        NoRequest /\ WatchStart(i, Cid1, info)

AutoStop == \E i \in Slots : NoRequest /\ WatchStop(i, Cid1)

NextAuto ==
    \/ AutoStart \/ AutoStop
    \/ ProvisionStep \/ DeprovisionStep \/ Respond

SpecAuto == Init /\ [][NextAuto]_vars

\* Auto-provisioning as the watchers deliver it: the callback is not
\* awaited, so the handler of an event starts while the handler of the event
\* before it is still in flight.  One event per slot, in the order of the
\* slots; the handlers stay where they finished.
StartEvent ==
    \E i \in Slots : WatchStart(i, Cid1, Labelled("true", Email1))

StopEvent == \E i \in Slots : WatchStop(i, Cid1)

NextWatch == StartEvent \/ StopEvent \/ ProvisionStep \/ DeprovisionStep

SpecWatch == Init /\ [][NextWatch]_vars

\* Two workloads whose ids begin with the same 8 characters, provisioned
\* one request at a time.
ProvisionAlike ==
    \E i \in Slots, cid \in {Cid1, Cid3}, e \in {NoEmail, Email1}, info \in InfoSet :
        NoRequest /\ StartProvision(i, cid, e, NoOptions, info)

NextAlike == ProvisionAlike \/ ProvisionStep \/ Respond

SpecAlike == Init /\ [][NextAlike]_vars

\* One workload provisioned, and teardowns asked for it and for ids shorter
\* than 8 characters, one request at a time.
ProvisionLong ==
    \E i \in Slots, e \in {NoEmail, Email1}, info \in InfoSet :
        NoRequest /\ StartProvision(i, Cid1, e, NoOptions, info)

DeprovisionShort ==
    \E i \in Slots, cid \in {Cid1, CidPart, NoCid} :
        NoRequest /\ StartDeprovision(i, cid)

NextShort ==
    \/ ProvisionLong \/ DeprovisionShort
    \/ ProvisionStep \/ DeprovisionStep \/ Respond

SpecShort == Init /\ [][NextShort]_vars

\* One workload provisioned for one principal after another, one request at
\* a time.
ProvisionFor ==
    \E i \in Slots, e \in {Email1, Email2, Email3}, info \in InfoSet :
        NoRequest /\ StartProvision(i, Cid1, e, NoOptions, info)

NextFor == ProvisionFor \/ ProvisionStep \/ Respond

SpecFor == Init /\ [][NextFor]_vars

\* One provisioning request whose body and whose labels both speak of a
\* service type, over the remote states of SchedRemotes.
ProvisionConfig ==
    \E i \in Slots, t \in {"ssh","vnc","web","tcp","rdp"}, e \in {NoEmail, Email1},
       oe \in {Undef, "true", "false"}, op \in RequestPorts,
       le \in {Undef, "true", "false"}, lp \in LabelPorts :
        /\ NoRequest
        /\ StartProvision(i, Cid1, e, OptionsFor(t, oe, op),
                          [ip |-> Ip1, email |-> NoEmail,
                           labels |-> LabelsFor(t, le, lp)])

NextConfig == ProvisionConfig \/ ProvisionStep

SpecConfig == SchedInit /\ [][NextConfig]_vars

-----------------------------------------------------------------------------
(* Properties                                                              *)

CallsOf(r, op, t) == SelectSeq(r.calls, LAMBDA c : c.op = op /\ c.t = t)

\* the types a handler has started to reconcile
Reconciled(r) == {r.calls[j].t : j \in {m \in 1..Len(r.calls) : r.calls[m].op = "findSocket"}}

NamedSockets(name) == {s \in sockets : s.name = name}

SameInputs(a, b) ==
    /\ a.cid = b.cid /\ a.email = b.email /\ a.ip = b.ip /\ a.configs = b.configs

\* the handler of slot i has finished a provisioning that repeats, with the
\* same inputs, the successful provisioning that finished right before it
Repeated(i) ==
    /\ req[i].pc = "done" /\ req[i].kind = "provision" /\ req[i].outcome = "ok"
    /\ prev[i].kind = "provision" /\ prev[i].outcome = "ok"
    /\ SameInputs(prev[i], req[i])

\* C1: when a provisioning is repeated with identical inputs right after a
\* successful one, each of its service types finds the endpoint, takes the
\* update path and issues no create, and exactly one endpoint of the
\* deterministic name exists.
C1_Idempotent ==
    \A i \in Slots :
        Repeated(i) =>
            \A t \in Reconciled(prev[i]) :
                /\ t \in Reconciled(req[i])
                /\ Len(CallsOf(req[i], "createSocket", t)) = 0
                /\ Len(CallsOf(req[i], "updateSocket", t)) = 1
                /\ CallsOf(req[i], "findSocket", t)[1].id # 0
                /\ Cardinality(NamedSockets(SocketName(Types[t], ShortId(req[i].cid)))) = 1

\* the first call created the endpoint and the repeated call has updated it
C1_Witness ==
    \E i \in Slots :
        /\ Repeated(i)
        /\ \E t \in Reconciled(prev[i]) :
             /\ Len(CallsOf(prev[i], "createSocket", t)) = 1
             /\ Len(CallsOf(req[i], "updateSocket", t)) = 1

\* C2: the remote service never holds two endpoints of the deterministic name
\* of one (workload, service type) pair.
C2_OnePerPair ==
    \A cid \in ContainerIds, t \in TypeIdx :
        Cardinality(NamedSockets(SocketName(Types[t], ShortId(cid)))) <= 1

\* an endpoint was torn down and a later provisioning holds an endpoint again
C2_Witness ==
    /\ ~SocketExists(1)
    /\ SocketExists(2)
    /\ \E i \in Slots : req[i].kind = "provision" /\ req[i].outcome = "ok"

\* the bulk-attach calls that succeeded, as attachPolicies invocations: the
\* email, the endpoint, the ids attached, the id of the policy the invocation
\* created (0: none), whether it tried to create, and the id its lookup found
AttachCalls(r) == SelectSeq(r.calls, LAMBDA c : c.op = "attach" /\ c.ok)

Invocation(r, c) ==
    LET made == SelectSeq(CallsOf(r, "createPolicy", c.t), LAMBDA x : x.ok)
        looked == CallsOf(r, "findPolicy", c.t)
    IN  [email |-> r.email, sock |-> c.id, ids |-> c.ids,
         created |-> IF Len(made) > 0 THEN made[1].id ELSE 0,
         tried |-> Len(CallsOf(r, "createPolicy", c.t)) > 0,
         found |-> IF Len(looked) > 0 THEN looked[1].id ELSE 0]

Invocations(r) ==
    [j \in 1..Len(AttachCalls(r)) |-> Invocation(r, AttachCalls(r)[j])]

\* the invocations of the provisioning that finished last and of the one in
\* flight, in order, while nothing else has touched the remote state
AttachHistory(i) ==
    IF req[i].kind = "deprovision" THEN <<>>
    ELSE (IF prev[i].kind = "provision" /\ prev[i].outcome = "ok"
          THEN Invocations(prev[i]) ELSE <<>>)
         \o (IF req[i].kind = "provision" THEN Invocations(req[i]) ELSE <<>>)

\* two attach calls in succession, same email, different endpoints, the first
\* of which created the personal policy
DedupPair(a, b) ==
    /\ a.email # NoEmail /\ a.email = b.email
    /\ a.sock # b.sock
    /\ a.created # 0

\* C3: after two attach calls in succession for the same email on two
\* different endpoints, the first of which created the personal policy, there
\* is exactly one personal policy of that email, it is attached to both
\* endpoints, and the second call found it and issued no policy create.
C3_PolicyDedup ==
    \A i \in Slots :
        \A j \in 1..(Len(AttachHistory(i)) - 1) :
            LET a == AttachHistory(i)[j]
                b == AttachHistory(i)[j + 1]
            IN  DedupPair(a, b) =>
                  /\ Cardinality({p \in policies : p.email = a.email}) = 1
                  /\ ~b.tried
                  /\ b.found = a.created
                  /\ \A id \in {a.sock, b.sock} :
                       SocketExists(id) /\ a.created \in SocketById(id).policies

\* such a pair of attach calls has happened
C3_Witness ==
    \E i \in Slots :
        \E j \in 1..(Len(AttachHistory(i)) - 1) :
            DedupPair(AttachHistory(i)[j], AttachHistory(i)[j + 1])

\* attachPolicies for type t of handler r is over: it returned or raised
AttachOver(r, t) == r.kind = "provision" /\ (r.ti > t \/ r.pc = "done")

CreateFailed(r, t) ==
    \E j \in 1..Len(r.calls) :
        r.calls[j].op = "createPolicy" /\ r.calls[j].t = t /\ ~r.calls[j].ok

\* C4: when the personal-policy create fails and a predefined policy id is
\* configured, attachPolicies issues exactly one bulk-attach call, carrying
\* exactly the predefined ids, and, that call succeeding, returns normally:
\* the endpoint is reported in socket_ids.
C4_GracefulDegrade ==
    \A i \in Slots, t \in TypeIdx :
        (Len(Predefined) > 0 /\ CreateFailed(req[i], t) /\ AttachOver(req[i], t)) =>
            LET A == CallsOf(req[i], "attach", t)
            IN  /\ Len(A) = 1
                /\ A[1].ids = Predefined
                /\ A[1].ok =>
                     \E j \in 1..Len(req[i].socket_ids) : req[i].socket_ids[j] = A[1].id

\* a provisioning has succeeded although its policy create failed
C4_Witness ==
    \E i \in Slots, t \in TypeIdx :
        /\ Len(Predefined) > 0 /\ CreateFailed(req[i], t)
        /\ req[i].pc = "done" /\ req[i].outcome = "ok"
        /\ Len(CallsOf(req[i], "attach", t)) = 1

\* the sweep of slot k saw a count of zero for entry j of its listing: in the
\* listing itself, or in the answer of the per-policy lookup
ObservedZero(r, j) ==
    \/ r.list[j].has_socket_ids /\ r.list[j].socket_count = 0
    \/ \E m \in 1..Len(r.calls) :
         /\ r.calls[m].op = "countPolicy" /\ r.calls[m].ok
         /\ r.calls[m].id = r.list[j].id /\ r.calls[m].ids = <<0>>

SweepDeleted(r, id) ==
    \E m \in 1..Len(r.calls) :
        r.calls[m].op = "deletePolicy" /\ r.calls[m].ok /\ r.calls[m].id = id

\* C5: when a sweep has returned success, every policy of its listing that is
\* named user-policy-... and whose attachment count it saw as zero has been
\* deleted by it.
C5_OrphansDeleted ==
    \A k \in SweepSlots :
        (sweep[k].pc = "returned" /\ sweep[k].success) =>
            \A j \in 1..Len(sweep[k].list) :
                (IsPersonal(sweep[k].list[j].name) /\ ObservedZero(sweep[k], j)) =>
                    /\ SweepDeleted(sweep[k], sweep[k].list[j].id)
                    /\ ~PolicyExists(sweep[k].list[j].id)

\* a successful sweep has deleted an orphan
C5_Witness ==
    \E k \in SweepSlots :
        /\ sweep[k].pc = "returned" /\ sweep[k].success
        /\ \E j \in 1..Len(sweep[k].list) :
             /\ ObservedZero(sweep[k], j)
             /\ SweepDeleted(sweep[k], sweep[k].list[j].id)

SweepActs(k) ==
    /\ sweep[k].pc \in {"listPolicies", "countPolicy", "deletePolicy"}
    /\ sweep'[k] # sweep[k]

\* C6: a step of a sweep that issues a policy delete names a policy attached
\* to no endpoint, and no step of a sweep removes, or detaches, a personal
\* policy that is attached to an endpoint.
C6_AttachedSurvive ==
    [][\A k \in SweepSlots :
         SweepActs(k) =>
           /\ sweep[k].pc = "deletePolicy" =>
                SocketIdsOf(sweep[k].list[sweep[k].idx].id) = {}
           /\ \A p \in policies :
                (IsPersonal(p.name) /\ SocketIdsOf(p.id) # {}) =>
                    /\ p \in policies'
                    /\ {x.id : x \in {y \in sockets' : p.id \in y.policies}}
                         = SocketIdsOf(p.id)]_vars

\* C7: every policy that a step creates or deletes is named user-policy-...
C7_OnlyPersonal ==
    [][\A p \in (policies \ policies') \cup (policies' \ policies) :
         IsPersonal(p.name)]_vars

\* a teardown has deleted the personal policy of its endpoint and has left the
\* predefined policy, now attached to nothing
C7_Witness ==
    /\ globalPolicyId = GlobalPolicy
    /\ PolicyExists(GlobalPolicy) /\ SocketIdsOf(GlobalPolicy) = {}
    /\ \E i \in Slots :
         /\ req[i].kind = "deprovision" /\ req[i].pc = "done"
         /\ \E m \in 1..Len(req[i].calls) :
              req[i].calls[m].op = "deletePolicy" /\ req[i].calls[m].ok

ArmStep(k) == sweep[k].pc = "returned" /\ sweep'[k].pc = "idle"

\* C8: the timer armed after a sweep has a delay in [0, 300000] when the sweep
\* took more than 5000 ms or failed, and of exactly 3600000 otherwise.
C8_Backoff ==
    [][\A k \in SweepSlots :
         ArmStep(k) =>
           /\ Len(timers') = Len(timers) + 1
           /\ LET delay == timers'[Len(timers')]
              IN  IF sweep[k].duration > 5000 \/ ~sweep[k].success
                  THEN delay >= 0 /\ delay <= 300000
                  ELSE delay = 3600000]_vars

\* the hourly timer is armed: a sweep was fast and successful
C8_Witness == \E j \in 1..Len(timers) : timers[j] = 3600000

Running == {k \in SweepSlots : sweep[k].pc # "idle"}

\* C9: at most one sweep is in progress, at most one timer is armed, and no
\* timer is armed while a sweep is in progress.
C9_OneSweep ==
    /\ Cardinality(Running) <= 1
    /\ Len(timers) <= 1
    /\ Running # {} => Len(timers) = 0

\* a sweep is deleting, and no timer is armed
C9_Witness ==
    /\ \E k \in SweepSlots : sweep[k].pc = "deletePolicy"
    /\ Len(timers) = 0

\* C10: sweeps start again and again, and every sweep in progress, failed or
\* not, comes to its end with exactly one timer armed.
C10_NoTerminal ==
    /\ []<>(\E k \in SweepSlots : sweep[k].pc = "listPolicies")
    /\ \A k \in SweepSlots :
         (sweep[k].pc # "idle") ~> (sweep[k].pc = "idle" /\ Len(timers) = 1)

\* a sweep has failed and the next timer is armed
C10_Witness ==
    /\ faults > 0
    /\ Running = {}
    /\ Len(timers) = 1

TornDown(r) == r.kind = "deprovision" /\ r.pc = "done" /\ r.outcome = "ok"

DeleteSocketCalls(r) == SelectSeq(r.calls, LAMBDA c : c.op = "deleteSocket")

\* the ids the name lookup of a teardown returned
Listed(r) == r.calls[1].ids

\* C11: a teardown that has returned has issued one successful delete for each
\* socket that the lookup by the 8-character short id returned, in that
\* order and no other, and its result is the number of those sockets; none of
\* the sockets named after the short id is left.
C11_TeardownCount ==
    \A i \in Slots :
        TornDown(req[i]) =>
            /\ req[i].calls[1].op = "listSockets"
            /\ Len(DeleteSocketCalls(req[i])) = Len(Listed(req[i]))
            /\ \A j \in 1..Len(Listed(req[i])) :
                 /\ DeleteSocketCalls(req[i])[j].id = Listed(req[i])[j]
                 /\ DeleteSocketCalls(req[i])[j].ok
            /\ req[i].count = Len(Listed(req[i]))
            /\ ~\E x \in sockets :
                 Includes(x.name, SubSeq(req[i].cid, 1, Min(8, Len(req[i].cid))))

\* a teardown has deleted the two sockets of a workload and answers 2
C11_Witness ==
    \E i \in Slots :
        /\ TornDown(req[i])
        /\ req[i].count = 2
        /\ Len(DeleteSocketCalls(req[i])) = 2

Tearing(i) == req[i].kind = "deprovision" /\ req'[i] # req[i]

\* C12: in a teardown the answer of the count lookup for a personal policy of
\* the socket just deleted leads to the delete of that policy exactly when no
\* socket is attached to it any more; every socket delete is followed by the
\* lookup for each personal policy the socket had; and no step of a teardown
\* removes a policy that a socket is still attached to.
C12_EagerCleanup ==
    [][\A i \in Slots :
         Tearing(i) =>
           /\ (req[i].pc = "countPolicy" /\ req'[i].outcome # "error") =>
                (req'[i].pc = "deletePolicy"
                   <=> SocketIdsOf(req[i].pp[req[i].pi].id) = {})
           /\ (req[i].pc = "deleteSocket" /\ req'[i].outcome # "error"
                 /\ Len(req[i].pp) > 0) =>
                (req'[i].pc = "countPolicy" /\ req'[i].pi = 1)
           /\ req'[i].pc = "deletePolicy" => req[i].pc = "countPolicy"
           /\ \A p \in policies \ policies' : SocketIdsOf(p.id) = {}]_vars

\* a teardown found a policy still attached after the first socket was
\* deleted, and deleted it after the second
C12_Witness ==
    \E i \in Slots :
        /\ TornDown(req[i])
        /\ \E m, n \in 1..Len(req[i].calls) :
             /\ m < n
             /\ req[i].calls[m].op = "countPolicy"
             /\ req[i].calls[m].ids = <<1>>
             /\ req[i].calls[n].op = "deletePolicy"
             /\ req[i].calls[n].ok
             /\ req[i].calls[n].id = req[i].calls[m].id

Provisioned(r) == r.kind = "provision" /\ r.pc = "done"

\* the service types the loop of a provisioning request is to reconcile
Wanted(r) ==
    {t \in TypeIdx : r.configs[Types[t]].enable
                       /\ ~(r.configs[Types[t]].port = 0 /\ Types[t] # "ssh")}

\* C13: when a provisioning request has ended, with or without a transport
\* error on one service type, every enabled service type of the request has
\* been reconciled (its lookup by name has been issued).
C13_FanOut ==
    \A i \in Slots :
        (Provisioned(req[i]) /\ req[i].outcome \in {"ok", "error"}) =>
            \A t \in Wanted(req[i]) : Len(CallsOf(req[i], "findSocket", t)) > 0

Failing(i) ==
    /\ req[i].kind = "provision"
    /\ req[i].outcome # "error"
    /\ req'[i].outcome = "error"

\* C14: the step on which the reconciliation of a service type fails makes
\* the request answer with a failure, leaves every socket set up for an
\* earlier service type of the request as it is, and issues no delete.
C14_NoRollback ==
    [][\A i \in Slots :
         Failing(i) =>
           /\ req'[i].pc = "done"
           /\ Status(req'[i]) = 500
           /\ \A s \in sockets :
                (\E j \in 1..Len(req[i].socket_ids) : req[i].socket_ids[j] = s.id)
                    => s \in sockets'
           /\ \A m \in 1..Len(req'[i].calls) :
                req'[i].calls[m].op \notin {"deleteSocket", "deletePolicy"}]_vars

\* a request has failed on a later service type and the socket of an earlier
\* one is there
C14_Witness ==
    \E i \in Slots :
        /\ Provisioned(req[i]) /\ req[i].outcome = "error"
        /\ Len(req[i].socket_ids) > 0
        /\ \A j \in 1..Len(req[i].socket_ids) : SocketExists(req[i].socket_ids[j])

\* C15: a provisioning request whose workload discovery does not know, or
\* knows without an ip, has ended without a single remote call.
C15_AbortBeforeRemote ==
    \A i \in Slots :
        (req[i].kind = "provision" /\ req[i].ip = NoIp) =>
            /\ req[i].pc = "done"
            /\ req[i].outcome = "notfound"
            /\ req[i].calls = <<>>

\* a request has ended as not found
C15_Witness ==
    \E i \in Slots :
        /\ Provisioned(req[i]) /\ req[i].outcome = "notfound"
        /\ req[i].calls = <<>>

\* C16: a provisioning request for a workload absent from discovery is
\* answered with status 404, which is not the status that answers a remote
\* transport error.
C16_NotFoundStatus ==
    \A i \in Slots :
        (Provisioned(req[i]) /\ req[i].outcome = "notfound") =>
            /\ Status(req[i]) = 404
            /\ Status(req[i]) # Status(Throw(req[i]))

PolicyOps == {"findPolicy", "createPolicy", "attach"}

\* C17: no bulk-attach call carries an empty list of policy ids; a request
\* with no principal email and no predefined policy id issues no policy call
\* at all; and with no predefined policy id a failed policy create is followed
\* by no bulk attach.
C17_NoEmptyAttach ==
    \A i \in Slots :
        req[i].kind = "provision" =>
            /\ \A m \in 1..Len(req[i].calls) :
                 req[i].calls[m].op = "attach" => Len(req[i].calls[m].ids) > 0
            /\ (req[i].email = NoEmail /\ Len(Predefined) = 0) =>
                 \A m \in 1..Len(req[i].calls) : req[i].calls[m].op \notin PolicyOps
            /\ \A t \in TypeIdx :
                 (Len(Predefined) = 0 /\ CreateFailed(req[i], t)) =>
                     Len(CallsOf(req[i], "attach", t)) = 0

\* a request without email and without predefined policy has created its
\* socket and has ended without a policy call
C17_Witness ==
    \E i \in Slots :
        /\ Provisioned(req[i]) /\ req[i].outcome = "ok"
        /\ req[i].email = NoEmail /\ Len(Predefined) = 0
        /\ \E m \in 1..Len(req[i].calls) :
             req[i].calls[m].op = "createSocket" /\ req[i].calls[m].ok
        /\ \A m \in 1..Len(req[i].calls) : req[i].calls[m].op \notin PolicyOps

SetUp(c) == c.op \in {"createSocket", "updateSocket"} /\ c.ok

\* attachPolicies for the socket of call m of r has something to attach
SomethingToAttach(r, t) ==
    \/ Len(Predefined) > 0
    \/ \E n \in 1..Len(r.calls) :
         /\ r.calls[n].t = t
         /\ \/ r.calls[n].op = "findPolicy" /\ r.calls[n].ok /\ r.calls[n].id # 0
            \/ r.calls[n].op = "createPolicy" /\ r.calls[n].ok

\* C18: a successful create or update of a socket is followed at once by the
\* attach for that service type (the policy lookup when there is an email,
\* else the bulk attach when there is a predefined policy), every bulk attach
\* of the type names the id of that socket, and the type is reported done
\* only when the bulk attach, if there is anything to attach, has succeeded.
C18_AlwaysAttach ==
    \A i \in Slots :
        \A m \in 1..Len(req[i].calls) :
            (req[i].kind = "provision" /\ SetUp(req[i].calls[m])) =>
                LET r == req[i]
                    c == r.calls[m]
                    last == m = Len(r.calls)
                IN  /\ r.email # NoEmail =>
                         IF last THEN r.pc = "findPolicy"
                         ELSE r.calls[m + 1].op = "findPolicy" /\ r.calls[m + 1].t = c.t
                    /\ (r.email = NoEmail /\ Len(Predefined) > 0) =>
                         IF last THEN r.pc = "attach" /\ r.socket = c.id
                         ELSE r.calls[m + 1].op = "attach" /\ r.calls[m + 1].t = c.t
                    /\ \A n \in 1..Len(r.calls) :
                         (r.calls[n].op = "attach" /\ r.calls[n].t = c.t) =>
                             n > m /\ r.calls[n].id = c.id
                    /\ (r.ti > c.t /\ SomethingToAttach(r, c.t)) =>
                         \E n \in (m + 1)..Len(r.calls) :
                             /\ r.calls[n].op = "attach" /\ r.calls[n].ok
                             /\ r.calls[n].t = c.t /\ r.calls[n].id = c.id

\* a request has updated a socket, attached to it and succeeded
C18_Witness ==
    \E i \in Slots :
        /\ Provisioned(req[i]) /\ req[i].outcome = "ok"
        /\ \E m, n \in 1..Len(req[i].calls) :
             /\ m < n
             /\ req[i].calls[m].op = "updateSocket" /\ req[i].calls[m].ok
             /\ req[i].calls[n].op = "attach" /\ req[i].calls[n].ok
             /\ req[i].calls[n].id = req[i].calls[m].id

SetUpCalls(r) == SelectSeq(r.calls, LAMBDA c : SetUp(c))

\* the handler that finished right before the one of slot i provisioned the
\* same workload with success
AfterProvision(i) ==
    /\ prev[i].kind = "provision" /\ prev[i].outcome = "ok"
    /\ prev[i].cid = req[i].cid

\* C19: the names of two distinct service types of one workload differ, so
\* two service types of a request never end up on the same socket; a socket
\* created is named <type>-<first 8 characters of the workload id>; and the
\* next call for the workload computes the same names: a provisioning finds
\* under the name of each type the socket the previous one set up, and a
\* teardown lists every socket the previous provisioning set up.
C19_StableNames ==
    /\ \A cid \in ContainerIds : \A t1, t2 \in TypeIdx :
         t1 # t2 => SocketName(Types[t1], ShortId(cid)) # SocketName(Types[t2], ShortId(cid))
    /\ \A i \in Slots :
         LET r == req[i]
             S == SetUpCalls(r)
             P == SetUpCalls(prev[i])
         IN  /\ r.kind = "provision" =>
                  \A m, n \in 1..Len(S) : S[m].t # S[n].t => S[m].id # S[n].id
             /\ r.kind = "provision" =>
                  \A m \in 1..Len(S) :
                      (S[m].op = "createSocket" /\ SocketExists(S[m].id)) =>
                          LET name == SocketById(S[m].id).name
                          IN  /\ Len(name) = 12
                              /\ SubSeq(name, 1, 3) = TypeChars(Types[S[m].t])
                              /\ name[4] = "-"
                              /\ SubSeq(name, 5, 12) = SubSeq(r.cid, 1, 8)
             /\ (r.kind = "provision" /\ AfterProvision(i)) =>
                  \A m \in 1..Len(r.calls), n \in 1..Len(P) :
                      (r.calls[m].op = "findSocket" /\ r.calls[m].ok
                         /\ r.calls[m].t = P[n].t) => r.calls[m].id = P[n].id
             /\ (r.kind = "deprovision" /\ AfterProvision(i)
                   /\ Len(r.calls) > 0 /\ r.calls[1].ok) =>
                  \A n \in 1..Len(P) :
                      \E j \in 1..Len(Listed(r)) : Listed(r)[j] = P[n].id

\* a teardown has listed and deleted the two sockets that the provisioning
\* before it set up
C19_Witness ==
    \E i \in Slots :
        /\ AfterProvision(i)
        /\ Len(SetUpCalls(prev[i])) = 2
        /\ TornDown(req[i])
        /\ req[i].count = 2

Updating(i) ==
    /\ req[i].pc = "updateSocket"
    /\ req'[i] # req[i]
    /\ req'[i].outcome # "error"

\* C20: the payload of a successful update carries upstream_host and
\* upstream_port, and for ssh the authentication type and the username, and
\* no other field; the update leaves the name, the service type, the
\* connector set and the policies of the socket as they were and sets its
\* upstream host and port.
C20_UpdateFrame ==
    [][\A i \in Slots :
         Updating(i) =>
           LET r == req[i]
               sent == WrapPayload(UpdatePayload(r))
               old == SocketById(r.socket)
               new == CHOOSE s \in sockets' : s.id = r.socket
           IN  /\ DOMAIN sent =
                    IF Types[r.ti] = "ssh"
                    THEN {"upstream_host", "upstream_port",
                          "ssh_authentication_type", "ssh_username"}
                    ELSE {"upstream_host", "upstream_port"}
               /\ sent.upstream_host = r.ip
               /\ sent.upstream_port = r.configs[Types[r.ti]].port
               /\ new.name = old.name
               /\ new.socket_type = old.socket_type
               /\ new.connector_ids = old.connector_ids
               /\ new.policies = old.policies
               /\ new.upstream_host = r.ip
               /\ new.upstream_port = r.configs[Types[r.ti]].port]_vars

\* a request has updated the ssh socket and the vnc socket of a workload
C20_Witness ==
    \E i \in Slots :
        /\ Provisioned(req[i]) /\ req[i].outcome = "ok"
        /\ \E m, n \in 1..Len(req[i].calls) :
             /\ req[i].calls[m].op = "updateSocket" /\ req[i].calls[m].ok
             /\ Types[req[i].calls[m].t] = "ssh"
             /\ req[i].calls[n].op = "updateSocket" /\ req[i].calls[n].ok
             /\ Types[req[i].calls[n].t] = "vnc"

LastCall(r) == r.calls[Len(r.calls)]

\* C21: in a teardown a policy delete that fails does not end the handler: the
\* next step is the count lookup of the next personal policy, the delete of
\* the next listed socket, or the normal return; and a teardown that returns
\* after it has deleted every listed socket and answers their number.
C21_DeleteFailureSwallowed ==
    [][\A i \in Slots :
         (Tearing(i) /\ req[i].pc = "deletePolicy" /\ ~LastCall(req'[i]).ok) =>
           /\ LastCall(req'[i]).op = "deletePolicy"
           /\ req'[i].outcome # "error"
           /\ req'[i].pc =
                IF req[i].pi < Len(req[i].pp) THEN "countPolicy"
                ELSE IF req[i].si < Len(req[i].list) THEN "deleteSocket"
                ELSE "done"
           /\ req'[i].pc = "done" =>
                /\ TornDown(req'[i])
                /\ req'[i].count = Len(Listed(req'[i]))
                /\ Len(DeleteSocketCalls(req'[i])) = Len(Listed(req'[i]))]_vars

\* a teardown has returned 2 although the delete of the policy of the first
\* socket failed: the second socket was deleted after the failure
C21_Witness ==
    \E i \in Slots :
        /\ TornDown(req[i])
        /\ req[i].count = 2
        /\ \E m, n \in 1..Len(req[i].calls) :
             /\ m < n
             /\ req[i].calls[m].op = "deletePolicy"
             /\ ~req[i].calls[m].ok
             /\ req[i].calls[n].op = "deleteSocket"
             /\ req[i].calls[n].ok

\* C22: in attachPolicies a failed lookup of the personal policy (other than
\* "not found") and a failed bulk attach are the last remote call of the
\* handler, which ends in error without reporting the endpoint of that type;
\* a failed create of the personal policy never ends the handler.
C22_OnlyCreateSwallowed ==
    \A i \in Slots :
        req[i].kind = "provision" =>
            \A m \in 1..Len(req[i].calls) :
                LET c == req[i].calls[m]
                IN  /\ (c.op \in {"findPolicy", "attach"} /\ ~c.ok) =>
                         /\ m = Len(req[i].calls)
                         /\ req[i].pc = "done" /\ req[i].outcome = "error"
                         /\ req[i].ti = c.t
                         /\ Len(req[i].socket_ids) =
                              Cardinality(Reconciled(req[i])) - 1
                    /\ (c.op = "createPolicy" /\ ~c.ok /\ m = Len(req[i].calls)) =>
                         /\ req[i].outcome # "error"
                         /\ req[i].pc \in {"attach", "findSocket", "done"}

\* a provisioning has ended in error on the failed lookup of its personal
\* policy, after the endpoint of the type was created
C22_Witness ==
    \E i \in Slots :
        /\ req[i].kind = "provision" /\ req[i].pc = "done"
        /\ req[i].outcome = "error"
        /\ LastCall(req[i]).op = "findPolicy" /\ ~LastCall(req[i]).ok
        /\ \E m \in 1..Len(req[i].calls) :
             req[i].calls[m].op = "createSocket" /\ req[i].calls[m].ok

\* the failures the callers catch: the policy create of attachPolicies, the
\* policy delete of a teardown
Swallowed(r, c) ==
    \/ r.kind = "provision" /\ c.op = "createPolicy"
    \/ r.kind = "deprovision" /\ c.op = "deletePolicy"

SameRequest(c, d) == c.op = d.op /\ c.t = d.t /\ c.id = d.id /\ c.ids = d.ids

\* C26: no remote call that failed is issued again: in the log of a handler
\* the call after a failed call is never the same request, a failed call is
\* followed by another call only where the caller catches the failure (policy
\* create, teardown's policy delete), and otherwise it is the last call of a
\* handler that ended in error; a failed call of a sweep is its last call and
\* the sweep reports no success.
C26_NoRetry ==
    /\ \A i \in Slots :
         \A m \in 1..Len(req[i].calls) :
            LET c == req[i].calls[m]
            IN  ~c.ok =>
                  IF m < Len(req[i].calls)
                  THEN /\ Swallowed(req[i], c)
                       /\ ~SameRequest(c, req[i].calls[m + 1])
                  ELSE \/ Swallowed(req[i], c)
                       \/ req[i].pc = "done" /\ req[i].outcome = "error"
    /\ \A k \in SweepSlots :
         \A m \in 1..Len(sweep[k].calls) :
            ~sweep[k].calls[m].ok =>
                /\ m = Len(sweep[k].calls)
                /\ sweep[k].pc = "returned"
                /\ ~sweep[k].success

\* a teardown has ended in error on the failed delete of its second socket:
\* each of the two sockets has one delete call in the log
C26_Witness ==
    \E i \in Slots :
        /\ req[i].kind = "deprovision" /\ req[i].outcome = "error"
        /\ LastCall(req[i]).op = "deleteSocket" /\ ~LastCall(req[i]).ok
        /\ Len(Listed(req[i])) = 2
        /\ Len(DeleteSocketCalls(req[i])) = 2

\* C23: for the sockets the service holds under a name pattern, delivered as
\* a bare array, under the key list or under the key sockets, listSocketsByName
\* returns the same collection: the items in the order delivered, each with
\* its id set.
C23_ShapesAgree ==
    \A cid \in ContainerIds, key \in IdKeys :
        LET asArray == ListSocketsByName("array", key, ShortId(cid))
        IN  /\ \A shape \in {"list", "sockets"} :
                 ListSocketsByName(shape, key, ShortId(cid)) = asArray
            /\ Seen(asArray) = RemoteListSockets(ShortId(cid))
            /\ \A j \in 1..Len(asArray) : asArray[j].id # 0

\* a teardown has listed the two sockets the service holds for a workload
C23_Witness ==
    \E i \in Slots :
        /\ req[i].kind = "deprovision" /\ req[i].pc = "deleteSocket"
        /\ req[i].si = 1
        /\ Len(req[i].list) = 2
        /\ Len(RemoteListSockets(ShortId(req[i].cid))) = 2

\* C25: the handler of a start event for a workload whose label
\* border0.io/enable is not 'true', or for which discovery returns nothing,
\* has finished without a single remote call.
C25_UnlabelledIgnored ==
    \A i \in Slots :
        (req[i].kind \in {"start", "provision"} /\ req[i].labels.auto # "true") =>
            /\ req[i].calls = <<>>
            /\ req[i].pc = "done"

\* a start event for a workload labelled border0.io/enable=false was ignored
\* while the service holds no socket
C25_Witness ==
    \E i \in Slots :
        /\ req[i].kind = "start" /\ req[i].outcome = "ignored"
        /\ req[i].labels.auto = "false"
        /\ sockets = {}

\* C27: no two sockets of the service have the same name, also while two
\* provisionings of one workload are in flight together.
C27_NoDuplicateNames ==
    \A s1, s2 \in sockets : s1.name = s2.name => s1.id = s2.id

FirstSlot == CHOOSE i \in Slots : \A j \in Slots : i <= j

\* the handler of a start event and the handler of the stop event delivered
\* after it have both finished, neither with an error
StartThenStopOver ==
    /\ req[FirstSlot].kind = "provision" /\ req[FirstSlot].pc = "done"
    /\ req[FirstSlot].outcome = "ok"
    /\ TornDown(req[FirstSlot + 1])
    /\ faults = 0

\* C29: once the handlers of a start event and of the stop event that followed
\* it for the same workload have finished, the service holds no socket named
\* after the workload.
C29_StopWins ==
    StartThenStopOver =>
        ~\E s \in sockets : Includes(s.name, ShortId(req[FirstSlot].cid))

\* the policy ids a handler holds for the bulk attach it is about to issue
Pending(r) ==
    IF r.kind = "provision" /\ r.pc = "attach"
    THEN {r.policyIds[j] : j \in 1..Len(r.policyIds)}
    ELSE {}

\* C28: no step removes a policy that a handler has found or created and is
\* about to attach, and the bulk attach a handler issues names only policies
\* that exist.
C28_AttachOutrunsSweep ==
    [][\A i \in Slots :
         /\ \A p \in policies \ policies' : p.id \notin Pending(req[i])
         /\ req'[i] # req[i] => \A id \in Pending(req[i]) : PolicyExists(id)]_vars

\* C30: the socket that a provisioning updates, and the socket it attaches
\* policies to, was created by a provisioning of the same workload.
C30_OwnEndpointsOnly ==
    [][\A i \in Slots :
         (/\ req[i].kind = "provision"
          /\ req[i].pc \in {"updateSocket", "attach"}
          /\ req'[i] # req[i]
          /\ LastCall(req'[i]).ok) =>
             SocketById(req[i].socket).owner = req[i].cid]_vars

\* the types whose reconciliation the configs of a handler call for
Enabled(r) == {t \in TypeIdx : r.configs[Types[t]].enable}

\* C24: for every service type of a provisioning, the type is enabled as the
\* request field says when there is one, else as the label says (enabled when
\* it is 'true') when there is one, else for ssh only; its port is the request
\* field when there is one, else the label's number when there is one, else
\* 22, 5901, 80, 0, 3389 for ssh, vnc, web, tcp, rdp; only enabled types are
\* reconciled, and a provisioning that succeeded has reconciled every enabled
\* type but those left for port 0.
C24_Precedence ==
    \A i \in Slots :
        LET r == req[i]
            std == [ssh |-> 22, vnc |-> 5901, web |-> 80, tcp |-> 0, rdp |-> 3389]
        IN  (r.kind = "provision" /\ r.outcome # "notfound") =>
              /\ \A t \in {"ssh","vnc","web","tcp","rdp"} :
                   /\ r.configs[t].enable =
                        IF r.options.enable[t] # Undef THEN r.options.enable[t] = "true"
                        ELSE IF r.labels.enable[t] # Undef THEN r.labels.enable[t] = "true"
                        ELSE t = "ssh"
                   /\ r.configs[t].port =
                        IF r.options.port[t] # 0 THEN r.options.port[t]
                        ELSE IF r.labels.port[t] # <<>> THEN ParseInt(r.labels.port[t])
                        ELSE std[t]
              /\ Reconciled(r) \subseteq Enabled(r)
              /\ (r.pc = "done" /\ r.outcome = "ok") =>
                   Reconciled(r) =
                     {t \in Enabled(r) : Types[t] = "ssh" \/ r.configs[Types[t]].port # 0}

\* a provisioning has set up a web socket on the port of the request although
\* the labels disable web and name another port
C24_Witness ==
    \E i \in Slots :
        /\ req[i].kind = "provision" /\ req[i].pc = "done" /\ req[i].outcome = "ok"
        /\ req[i].options.enable["web"] = "true" /\ req[i].options.port["web"] = 8080
        /\ req[i].labels.enable["web"] = "false"
        /\ req[i].labels.port["web"] = <<"2","2","2","2">>
        /\ \E s \in sockets :
             /\ s.name = SocketName("web", ShortId(req[i].cid))
             /\ s.upstream_port = 8080

\* C31: every socket that a step of a teardown deletes is named
\* <type>-<short id> after the workload of the teardown.
C31_OwnNamesOnly ==
    [][\A i \in Slots :
         (req[i].kind = "deprovision" /\ req[i].pc = "deleteSocket"
            /\ req'[i] # req[i]) =>
             \A s \in sockets \ sockets' :
                 \E t \in TypeIdx :
                     s.name = SocketName(Types[t], ShortId(req[i].cid))]_vars

\* the personal policies attached to the socket of an id
PersonalOn(id) ==
    {p \in policies : IsPersonal(p.name) /\ p.id \in SocketById(id).policies}

\* C32: when a provisioning with a principal email has succeeded, its policy
\* create not having failed, the personal policies attached to each socket it
\* reports are exactly the policy named after that email.
C32_OnlyCurrentPrincipal ==
    \A i \in Slots :
        LET r == req[i]
        IN  (/\ r.kind = "provision" /\ r.pc = "done" /\ r.outcome = "ok"
             /\ r.email # NoEmail
             /\ \A t \in TypeIdx : ~CreateFailed(r, t)) =>
               \A j \in 1..Len(r.socket_ids) :
                   {p.name : p \in PersonalOn(r.socket_ids[j])} = {PolicyName(r.email)}

\* C33: every personal policy that a bulk attach of a handler adds to a socket
\* has the condition who.email = [the email of the handler].
C33_PolicyOfThatEmail ==
    [][\A i \in Slots :
         (req[i].pc = "attach" /\ req'[i] # req[i] /\ LastCall(req'[i]).ok) =>
             \A id \in Pending(req[i]) :
                 IsPersonal(PolicyById(id).name) =>
                     PolicyById(id).email = req[i].email]_vars

\* C34: the step of a sweep in which a remote call fails (the listing, a count
\* lookup or a policy delete) ends the sweep: it returns success = false with
\* the elapsed duration, the failed call stays the last call of its log, the
\* step deletes nothing, and what the sweep deleted before stays deleted until
\* the sweep is handed back to the scheduler.
C34_SweepStopsAtFailure ==
    [][\A k \in SweepSlots :
         /\ (SweepActs(k) /\ ~LastCall(sweep'[k]).ok) =>
               /\ sweep'[k].pc = "returned"
               /\ ~sweep'[k].success
               /\ sweep'[k].duration \in Durations
               /\ policies' = policies
               /\ sockets' = sockets
         /\ (sweep[k].pc = "returned" /\ ~sweep[k].success) =>
               /\ sweep'[k] \in {sweep[k], IdleSweep}
               /\ policies' = policies
               /\ \A m \in 1..Len(sweep[k].calls) :
                     (sweep[k].calls[m].op = "deletePolicy" /\ sweep[k].calls[m].ok)
                        => ~PolicyExists(sweep[k].calls[m].id)]_vars

\* a sweep has deleted one orphaned policy, failed on the next one and
\* returned: the second policy is still there, the first is gone
C34_Witness ==
    \E k \in SweepSlots :
        /\ sweep[k].pc = "returned" /\ ~sweep[k].success
        /\ SweepDeleted(sweep[k], Policy1.id)
        /\ ~LastCall(sweep[k]).ok /\ LastCall(sweep[k]).id = Policy2.id
        /\ ~PolicyExists(Policy1.id) /\ PolicyExists(Policy2.id)

\* C35: a personal policy that is attached to no endpoint, and stays so, is
\* eventually deleted, when timers that are armed fire, sweeps in progress
\* take their steps and remote calls fail only finitely often.
C35_OrphanCollected ==
    \A p \in {Policy1, Policy2} :
        (PolicyExists(p.id) /\ SocketIdsOf(p.id) = {}) ~> ~PolicyExists(p.id)

\* both orphaned policies are gone although a remote call of a sweep failed
C35_Witness ==
    /\ faults > 0
    /\ nextPolicyId = Cardinality({Policy0, Policy1, Policy2})
    /\ policies = {Policy0}
    /\ \E k \in SweepSlots : SweepDeleted(sweep[k], Policy2.id)

\* the place of a service type in the order ssh, vnc, web, tcp, rdp
Place(t) == [ssh |-> 1, vnc |-> 2, web |-> 3, tcp |-> 4, rdp |-> 5][Types[t]]

\* the call that ends the reconciliation of a type: the bulk attach, or the
\* call before it when there is nothing to attach
Closing(c) ==
    \/ c.op = "attach" /\ c.ok
    \/ c.op \in {"createSocket", "updateSocket"} /\ c.ok
    \/ c.op = "createPolicy"

PortLess(r) ==
    {t \in TypeIdx : /\ r.configs[Types[t]].enable
                     /\ r.configs[Types[t]].port = 0
                     /\ Types[t] # "ssh"}

\* C37: a service type other than ssh that is enabled with port 0 is left
\* out: no remote call is issued for it, socket_ids has entries for the other
\* types only, a request that fails fails on a call for another type, and a
\* request that fails nowhere answers ok with the sockets of the other
\* enabled types.
C37_PortZeroSkipped ==
    \A i \in Slots :
        LET r == req[i]
        IN  (r.kind = "provision" /\ r.outcome # "notfound") =>
              /\ \A m \in 1..Len(r.calls) : r.calls[m].t \notin PortLess(r)
              /\ Len(r.socket_ids) <= Cardinality(Enabled(r) \ PortLess(r))
              /\ r.outcome = "error" =>
                    /\ Len(r.calls) > 0
                    /\ ~LastCall(r).ok
                    /\ LastCall(r).t \in Enabled(r) \ PortLess(r)
              /\ r.outcome = "ok" =>
                    Len(r.socket_ids) = Cardinality(Enabled(r) \ PortLess(r))

\* a request that enables tcp without a port has answered ok with the ssh
\* socket alone
C37_Witness ==
    \E i \in Slots :
        /\ req[i].kind = "provision" /\ req[i].outcome = "ok"
        /\ req[i].options.enable["tcp"] = "true"
        /\ PortLess(req[i]) # {}
        /\ Len(req[i].socket_ids) = 1
        /\ Len(req[i].calls) > 0

\* the ids the service has issued so far
IssuedSockets == 1..(nextSocketId - 1)

IssuedPolicies == GlobalPolicy..(GlobalPolicy + nextPolicyId - 1)

\* C38: the id of every item of a listing, and of every socket returned by
\* createSocket or updateSocket, is set: it is the item's own id when the
\* service sent one, and its socket_id or policy_id otherwise. The sockets a
\* teardown has listed, the socket a provisioning works on and reports, and
\* the policies a sweep has listed therefore all carry an id the service
\* issued, never 0 and never a second identifier sent beside the id.
C38_CanonicalId ==
    /\ \A s \in sockets, key \in IdKeys \cup {"both"} :
          LET raw == RawItem(s, key)
              out == ExtractList(Shaped("list", <<raw>>), <<"list", "sockets">>)[1]
          IN  /\ out.id # 0
              /\ out.id = IF raw.id # 0 THEN raw.id ELSE raw.socket_id
              /\ CanonicalId(raw).id = out.id
    /\ \A i \in Slots :
          /\ \A j \in 1..Len(req[i].list) : req[i].list[j].id \in IssuedSockets
          /\ \A j \in 1..Len(req[i].socket_ids) : req[i].socket_ids[j] \in IssuedSockets
          /\ req[i].pc \in {"updateSocket", "findPolicy", "createPolicy", "attach"}
                => req[i].socket \in IssuedSockets
    /\ \A k \in SweepSlots :
          \A j \in 1..Len(sweep[k].list) : sweep[k].list[j].id \in IssuedPolicies

\* a sweep has listed the policies while a provisioning that updated a socket
\* found by name is about to attach to it
C38_Witness ==
    /\ \E k \in SweepSlots : Len(sweep[k].list) > 1
    /\ \E i \in Slots :
          /\ req[i].pc = "attach"
          /\ LastCall(req[i]).op # "createSocket"
          /\ \E m \in 1..Len(req[i].calls) :
                req[i].calls[m].op = "updateSocket" /\ req[i].calls[m].ok

\* C39: a policy lookup that is answered with 404 (no policy of that name, no
\* policy of that id) is taken as "absent": the lookup by name yields no
\* policy and the attach goes on to create one, the count lookup yields 0 and
\* its caller goes on to the delete; a lookup that fails in any other way
\* ends the request in error, and the sweep without success.
C39_MissingIsAbsent ==
    [][/\ \A i \in Slots :
            /\ (req[i].pc = "findPolicy" /\ req'[i] # req[i]) =>
                  LET c == LastCall(req'[i])
                  IN  /\ (c.ok /\ FindPolicyByName(PolicyName(req[i].email)) = {}) =>
                            /\ c.id = 0
                            /\ req'[i].pc = "createPolicy"
                      /\ ~c.ok => req'[i].pc = "done" /\ req'[i].outcome = "error"
            /\ (req[i].pc = "countPolicy" /\ req'[i] # req[i]) =>
                  LET c == LastCall(req'[i])
                  IN  /\ (c.ok /\ ~PolicyExists(c.id)) =>
                            /\ c.ids = <<0>>
                            /\ req'[i].pc = "deletePolicy"
                      /\ ~c.ok => req'[i].pc = "done" /\ req'[i].outcome = "error"
       /\ \A k \in SweepSlots :
            (sweep[k].pc = "countPolicy" /\ sweep'[k] # sweep[k]) =>
                  LET c == LastCall(sweep'[k])
                  IN  /\ (c.ok /\ ~PolicyExists(c.id)) =>
                            /\ c.ids = <<0>>
                            /\ sweep'[k].pc = "deletePolicy"
                      /\ ~c.ok => sweep'[k].pc = "returned" /\ ~sweep'[k].success]_vars

\* the lookup by name has answered 404 for a policy a sweep deleted, and the
\* attach is about to create the policy again
C39_Witness ==
    \E i \in Slots :
        /\ req[i].pc = "createPolicy"
        /\ LastCall(req[i]).op = "findPolicy"
        /\ LastCall(req[i]).ok /\ LastCall(req[i]).id = 0
        /\ \E k \in SweepSlots : SweepDeleted(sweep[k], GlobalPolicy + 1)

\* C40: when the process starts, one timer is armed for the first sweep, with
\* a delay in [0, 3600000] ms, and no sweep is in progress; a sweep starts
\* only in a step in which an armed timer fires, so none runs before the
\* first timer has fired.
C40_FirstSweepDelayed ==
    /\ Len(timers) = 1
    /\ timers[1] \in 0..Hour
    /\ \A k \in SweepSlots : sweep[k] = IdleSweep
    /\ [][\A k \in SweepSlots :
             (sweep[k].pc = "idle" /\ sweep'[k].pc # "idle") =>
                /\ Len(timers) > 0
                /\ Len(timers') = Len(timers) - 1
                /\ sweep'[k].pc = "listPolicies"
                /\ sweep'[k].calls = <<>>]_vars

\* the first timer has fired: the first sweep is about to list the policies
\* and nothing has been called before
C40_Witness ==
    /\ Len(timers) = 0
    /\ faults = 0
    /\ \E k \in SweepSlots :
          sweep[k].pc = "listPolicies" /\ sweep[k].calls = <<>>
    /\ policies \in {rs.policies : rs \in SchedRemotes}
====
